---- MODULE Spec2Model ----
(***************************************************************************)
(* Model of immichctl's asset selection commands: the persisted selection  *)
(* store (assets.rs), the search add / search remove commands with their   *)
(* page loop and local filter, and the timestamp resolver (asset_cmd.rs).  *)
(*                                                                         *)
(* Texts (asset ids, EXIF timezone strings, next-page tokens) are          *)
(* sequences of one-character strings, so that parsing and comparing them  *)
(* is computed the way the code computes it.  Instants are whole seconds   *)
(* since the epoch (UTC); a DateTime<FixedOffset> is [utc, off].  The one  *)
(* instant that may lie further from the others than a 32-bit integer      *)
(* counts, local_date_time, is [era, sec] and stands for                   *)
(* era * 2^32 + sec seconds, with sec inside the i32 range.                *)
(***************************************************************************)
EXTENDS Integers, Sequences, FiniteSets, TLC

\* ------------------------------------------------------------------------
\* Bounds of the model
\* ------------------------------------------------------------------------

\* most search requests one command sends (the code's loop has no bound)
MaxPages == 2

\* most items in one search response
MaxItems == 2

\* ------------------------------------------------------------------------
\* Program constants
\* ------------------------------------------------------------------------

\* seconds per hour, asset_cmd.rs: hours * 3600
SecPerHour == 3600

\* seconds per minute, asset_cmd.rs: minutes * 60
SecPerMin == 60

\* parse_exif_timezone: hours > 14 is rejected
MaxTzHours == 14

\* parse_exif_timezone: minutes > 59 is rejected
MaxTzMinutes == 59

\* chrono FixedOffset::east_opt accepts -86400 < secs < 86400
FixedOffsetLimit == 86400

\* ------------------------------------------------------------------------
\* Option and Result values
\* ------------------------------------------------------------------------

Some(x) == [some |-> TRUE, v |-> x]

NoneInt == [some |-> FALSE, v |-> 0]

NoneStr == [some |-> FALSE, v |-> <<>>]

NoneBool == [some |-> FALSE, v |-> FALSE]

NoneDateTime == [some |-> FALSE, v |-> [utc |-> 0, off |-> 0]]

Ok(x) == [ok |-> TRUE, v |-> x]

ErrInt == [ok |-> FALSE, v |-> 0]

ErrStr == [ok |-> FALSE, v |-> <<>>]

\* ------------------------------------------------------------------------
\* Text helpers (str methods of the Rust standard library)
\* ------------------------------------------------------------------------

DigitChars == {"0", "1", "2", "3", "4", "5", "6", "7", "8", "9"}

DigitVal(c) ==
    CASE c = "0" -> 0 [] c = "1" -> 1 [] c = "2" -> 2 [] c = "3" -> 3
      [] c = "4" -> 4 [] c = "5" -> 5 [] c = "6" -> 6 [] c = "7" -> 7
      [] c = "8" -> 8 [] c = "9" -> 9 [] OTHER -> 0

RECURSIVE DigitsValue(_)
DigitsValue(s) ==
    IF s = <<>> THEN 0
    ELSE 10 * DigitsValue(SubSeq(s, 1, Len(s) - 1)) + DigitVal(s[Len(s)])

AllDigits(s) == \A i \in 1..Len(s) : s[i] \in DigitChars

\* str::parse::<i32>: an optional sign, then at least one decimal digit
\* (texts are short here, so the overflow error cannot occur)
ParseI32(s) ==
    LET signed == s # <<>> /\ s[1] \in {"+", "-"}
        digits == IF signed THEN Tail(s) ELSE s
    IN  IF digits = <<>> \/ ~AllDigits(digits) THEN ErrInt
        ELSE IF signed /\ s[1] = "-" THEN Ok(0 - DigitsValue(digits))
        ELSE Ok(DigitsValue(digits))

\* str::parse::<f64> on texts made of a sign and decimal digits: the value
\* is the integer (texts with '.', exponents, "inf", "NaN" are not drawn)
ParseF64(s) == ParseI32(s)

WhiteSpace == {" "}

RECURSIVE TrimStart(_)
TrimStart(s) ==
    IF s # <<>> /\ s[1] \in WhiteSpace THEN TrimStart(Tail(s)) ELSE s

RECURSIVE TrimEnd(_)
TrimEnd(s) ==
    IF s # <<>> /\ s[Len(s)] \in WhiteSpace
    THEN TrimEnd(SubSeq(s, 1, Len(s) - 1)) ELSE s

\* str::trim
Trim(s) == TrimEnd(TrimStart(s))

UtcText == <<"U", "T", "C">>

\* str::strip_prefix("UTC")
StripPrefixUtc(s) ==
    IF Len(s) >= 3 /\ SubSeq(s, 1, 3) = UtcText
    THEN Some(SubSeq(s, 4, Len(s))) ELSE NoneStr

\* str::split(':') as the sequence of its parts (never empty)
RECURSIVE SplitColon(_)
SplitColon(s) ==
    IF \A i \in 1..Len(s) : s[i] # ":" THEN <<s>>
    ELSE LET i == CHOOSE k \in 1..Len(s) :
                      s[k] = ":" /\ \A j \in 1..(k - 1) : s[j] # ":"
         IN  <<SubSeq(s, 1, i - 1)>> \o SplitColon(SubSeq(s, i + 1, Len(s)))

\* ------------------------------------------------------------------------
\* UUID texts (uuid crate)
\* ------------------------------------------------------------------------

LowerHex == {"0", "1", "2", "3", "4", "5", "6", "7", "8", "9",
             "a", "b", "c", "d", "e", "f"}

UpperHex == {"A", "B", "C", "D", "E", "F"}

ToLower(c) ==
    CASE c = "A" -> "a" [] c = "B" -> "b" [] c = "C" -> "c"
      [] c = "D" -> "d" [] c = "E" -> "e" [] c = "F" -> "f" [] OTHER -> c

\* an asset id in the server's spelling; UUIDs have this many hex digits here
\* (32 in the uuid crate)
IdA1 == <<"a", "1">>

UuidLen == Len(IdA1)

\* Uuid::parse_str: UuidLen hex digits of either case; the value is kept as
\* its lowercase digits (the braced, urn and hyphen-free spellings the crate
\* also accepts are not drawn)
UuidParseStr(s) ==
    IF Len(s) = UuidLen /\ \A i \in 1..Len(s) : s[i] \in LowerHex \cup UpperHex
    THEN Ok([i \in 1..Len(s) |-> ToLower(s[i])])
    ELSE ErrStr

\* Uuid's Display / serde form: lowercase
UuidToString(u) == u

\* ------------------------------------------------------------------------
\* Timezone parser and timestamp resolver (asset_cmd.rs)
\* ------------------------------------------------------------------------

\* FixedOffset::east_opt
EastOpt(secs) ==
    IF -FixedOffsetLimit < secs /\ secs < FixedOffsetLimit
    THEN Ok(secs) ELSE ErrInt

\* a reading that knows the forms with a colon only
TzHoursMinutesColonOnly(rest) ==
    LET parts == SplitColon(rest)
        h == ParseI32(parts[1])
        m == ParseI32(IF Len(parts) >= 2 THEN parts[2] ELSE <<"0">>)
    IN  [ok |-> h.ok /\ m.ok, h |-> h.v, m |-> m.v]

\* hours and minutes of the text after the sign character
TzHoursMinutes(rest) ==
    LET parts == SplitColon(rest)
        hours_str == parts[1]
        minutes_str == IF Len(parts) >= 2 THEN parts[2] ELSE <<"0">>
    IN  IF Len(hours_str) > 2
        THEN IF Len(hours_str) # 4
             THEN [ok |-> FALSE, h |-> 0, m |-> 0]
             ELSE LET h == ParseI32(SubSeq(hours_str, 1, 2))
                      m == ParseI32(SubSeq(hours_str, 3, 4))
                  IN  [ok |-> h.ok /\ m.ok, h |-> h.v, m |-> m.v]
        ELSE LET h == ParseI32(hours_str)
                 m == ParseI32(minutes_str)
             IN  [ok |-> h.ok /\ m.ok, h |-> h.v, m |-> m.v]

parse_exif_timezone(tz_str) ==
    LET t == Trim(tz_str) IN
    IF t = <<>> THEN ErrInt
    ELSE IF t = UtcText THEN EastOpt(0)
    ELSE LET stripped == StripPrefixUtc(t)
             s == IF stripped.some THEN stripped.v ELSE t
         IN  IF s = <<>> THEN ErrInt
             ELSE IF s[1] \notin {"+", "-"} THEN ErrInt
             ELSE LET sign == IF s[1] = "+" THEN 1 ELSE -1
                      hm == TzHoursMinutes(Tail(s))
                  IN  IF ~hm.ok THEN ErrInt
                      ELSE IF hm.h > MaxTzHours \/ hm.m > MaxTzMinutes
                      THEN ErrInt
                      ELSE EastOpt((hm.h * SecPerHour + hm.m * SecPerMin) * sign)

\* an instant era * 2^32 + sec seconds after the epoch
Wide(era, sec) == [era |-> era, sec |-> sec]

\* DateTime::signed_duration_since and TimeDelta::num_seconds: the i64
\* number of seconds from the instant earlier to the instant later, as
\* era * 2^32 + sec
signed_duration_since(later, earlier) ==
    Wide(later.era, later.sec - earlier)

\* i64 as i32: the cast keeps the low 32 bits, read as a signed number, so
\* the multiple of 2^32 is dropped
AsI32(d) == d.sec

asset_timezone_offset(asset) ==
    LET delta == signed_duration_since(asset.local_date_time,
                                       asset.file_created_at)
        delta_sec == AsI32(delta)
        tz == EastOpt(delta_sec)
    IN  IF tz.ok THEN tz.v ELSE 0

get_assert_date_time_original(asset) ==
    [utc |-> asset.file_created_at, off |-> asset_timezone_offset(asset)]

get_exif_date_time_original(asset) ==
    IF asset.exif_date_time_original.some /\ asset.exif_time_zone.some
    THEN LET tz == parse_exif_timezone(asset.exif_time_zone.v)
         IN  IF tz.ok
             THEN Some([utc |-> asset.exif_date_time_original.v, off |-> tz.v])
             ELSE NoneDateTime
    ELSE NoneDateTime

exif_timezone_offset(asset) ==
    IF asset.exif_time_zone.some
    THEN LET tz == parse_exif_timezone(asset.exif_time_zone.v)
         IN  IF tz.ok THEN Some(tz.v) ELSE NoneInt
    ELSE NoneInt

get_date_time_original(asset) ==
    LET exif == get_exif_date_time_original(asset)
    IN  IF exif.some THEN exif.v ELSE get_assert_date_time_original(asset)

\* (date_time_original + *offset).with_timezone(tz), paired with
\* date_time_original
AdjustedPair(date_time_original, offset, new_timezone) ==
    LET asset_tz == date_time_original.off
        tz == IF new_timezone.some THEN new_timezone.v ELSE asset_tz
        new_date_time_original ==
            [date_time_original EXCEPT !.utc = @ + offset]
    IN  [old |-> date_time_original,
         new |-> [new_date_time_original EXCEPT !.off = tz]]

\* an adjustment that also moves the instant by the difference of the two
\* offsets
adjust_date_time_originalShifting(asset, offset, new_timezone) ==
    LET date_time_original == get_date_time_original(asset)
        asset_tz == date_time_original.off
        tz == IF new_timezone.some THEN new_timezone.v ELSE asset_tz
        timezone_offset == (0 - tz) - (0 - asset_tz)
    IN  [old |-> date_time_original,
         new |-> [utc |-> date_time_original.utc + timezone_offset + offset,
                  off |-> tz]]

\* adjust_date_time_original: the instant moves by offset seconds and is
\* then read at new_timezone, or at its own offset when none is given
adjust_date_time_original(asset, offset, new_timezone) ==
    AdjustedPair(get_date_time_original(asset), offset, new_timezone)

\* DateTime::to_rfc3339: the wall-clock reading at the offset, followed by
\* the offset as sign, hours and minutes (the reading is kept as its count
\* of seconds, not as its digits)
to_rfc3339(dt) ==
    LET abs == IF dt.off < 0 THEN 0 - dt.off ELSE dt.off
    IN  [date_time |-> dt.utc + dt.off,
         sign |-> IF dt.off < 0 THEN "-" ELSE "+",
         hours |-> abs \div SecPerHour,
         minutes |-> (abs \div SecPerMin) % SecPerMin]

\* ------------------------------------------------------------------------
\* Data the commands run on
\* ------------------------------------------------------------------------

IdA1Upper == <<"A", "1">>

IdB2 == <<"b", "2">>

IdNoUuid == <<"n", "o">>

TzPlus2 == <<"+", "0", "2", ":", "0", "0">>

Hours(n) == n * SecPerHour

AssetResponseDto(id, fca, ldt, xdt, xtz, fav) ==
    [id |-> id, file_created_at |-> fca, local_date_time |-> ldt,
     exif_date_time_original |-> xdt, exif_time_zone |-> xtz,
     is_favorite |-> fav]

\* the assets the remote service knows, two of them under one id:
\* no EXIF data and a device offset of +2 h
AssetA ==
    AssetResponseDto(IdA1, Hours(10), Wide(0, Hours(12)), NoneInt, NoneStr,
                     FALSE)

\* an EXIF timezone without EXIF date-time and a device offset of -1 h
AssetA2 ==
    AssetResponseDto(IdA1, Hours(30), Wide(0, Hours(29)), NoneInt,
                     Some(TzPlus2), TRUE)

\* full EXIF data, and a device clock that is 26 h off
AssetB ==
    AssetResponseDto(IdB2, Hours(10), Wide(0, Hours(36)), Some(Hours(20)),
                     Some(TzPlus2), FALSE)

ServerAssets == {AssetA, AssetA2, AssetB}

RECURSIVE SeqsUpTo(_, _)
SeqsUpTo(S, n) ==
    IF n = 0 THEN {<<>>}
    ELSE LET shorter == SeqsUpTo(S, n - 1)
         IN  shorter \cup {Append(s, x) : s \in shorter, x \in S}

\* the items of one search response: no record twice
ItemLists ==
    {its \in SeqsUpTo(ServerAssets, MaxItems) :
        \A i, j \in 1..Len(its) : i # j => its[i] # its[j]}

\* next_page of a search response: absent, or a text
NextPageTokens ==
    {NoneStr, Some(<<"2">>), Some(<<"1">>), Some(<<"0">>), Some(<<"x">>)}

SearchResponses ==
    {[items |-> it, next_page |-> t] : it \in ItemLists, t \in NextPageTokens}

\* tags and albums of the remote service
TagResponseDto(id, name, value) == [id |-> id, name |-> name, value |-> value]

Tag1 == TagResponseDto(<<"c", "3">>, "tag1", "p/tag1")

Tag1Other == TagResponseDto(<<"d", "4">>, "tag1", "q/tag1")

TagLists == {<<>>, <<Tag1>>, <<Tag1, Tag1Other>>}

AlbumResponseDto(id, album_name) == [id |-> id, album_name |-> album_name]

Album1 == AlbumResponseDto(<<"e", "5">>, "album1")

Album1Other == AlbumResponseDto(<<"f", "6">>, "album1")

AlbumLists == {<<>>, <<Album1>>, <<Album1, Album1Other>>}

\* outcome of get_all_tags / get_all_albums: the call fails or returns a list
ListOutcomes(lists) ==
    {[ok |-> FALSE, list |-> <<>>]} \cup {[ok |-> TRUE, list |-> l] : l \in lists}

\* command line arguments of "assets search"
NoneName == [some |-> FALSE, v |-> ""]

AssetSearchArgs(id, tag, album, favorite, taken_after, taken_before, timezone) ==
    [id |-> id, tag |-> tag, album |-> album, favorite |-> favorite,
     taken_after |-> taken_after, taken_before |-> taken_before,
     timezone |-> timezone]

DateTime(utc, off) == [utc |-> utc, off |-> off]

IdArgs == {NoneStr, Some(IdA1), Some(IdA1Upper), Some(IdNoUuid)}

TagArgs == {NoneName, Some("tag1")}

AlbumArgs == {NoneName, Some("album1")}

FavoriteArgs == {NoneBool, Some(TRUE), Some(FALSE)}

TakenAfterArgs ==
    {NoneDateTime, Some(DateTime(Hours(10), Hours(2))), Some(DateTime(Hours(20), 0))}

TakenBeforeArgs ==
    {NoneDateTime, Some(DateTime(Hours(20), Hours(-1))), Some(DateTime(Hours(30), 0))}

TimezoneArgs == {NoneInt, Some(Hours(2))}

\* removals without tag and album: every combination of the other flags
LocalRemoveArgs ==
    {AssetSearchArgs(i, NoneName, NoneName, f, ta, tb, tz) :
        i \in IdArgs, f \in FavoriteArgs, ta \in TakenAfterArgs,
        tb \in TakenBeforeArgs, tz \in TimezoneArgs}

\* removals with a tag and/or an album: alone, with an id that is no UUID,
\* with a timezone
RemoteRemoveArgs ==
    {AssetSearchArgs(i, t, al, NoneBool, NoneDateTime, NoneDateTime, tz) :
        i \in {NoneStr, Some(IdNoUuid)}, t \in TagArgs, al \in AlbumArgs,
        tz \in TimezoneArgs}
    \ (LocalRemoveArgs
         \cup {AssetSearchArgs(NoneStr, Some("tag1"), Some("album1"), NoneBool,
                               NoneDateTime, NoneDateTime, NoneInt)})

RemoveArgs == LocalRemoveArgs \cup RemoteRemoveArgs

\* additions: by id, by timezone alone, by id and timezone, by tag and an
\* id that is no UUID
AddArgs ==
    {AssetSearchArgs(i, NoneName, NoneName, NoneBool, NoneDateTime,
                     NoneDateTime, NoneInt) : i \in IdArgs}
    \cup {AssetSearchArgs(NoneStr, NoneName, NoneName, NoneBool, NoneDateTime,
                          NoneDateTime, Some(Hours(2))),
          AssetSearchArgs(Some(IdA1), NoneName, NoneName, NoneBool,
                          NoneDateTime, NoneDateTime, Some(0 - Hours(5))),
          AssetSearchArgs(Some(IdNoUuid), Some("tag1"), NoneName, NoneBool,
                          NoneDateTime, NoneDateTime, NoneInt)}

\* the answers the lookups of a request can get: none is made for a name
\* that is not given
TagOutcomes(a) ==
    IF a.tag.some THEN ListOutcomes(TagLists) ELSE {[ok |-> FALSE, list |-> <<>>]}

AlbumOutcomes(a) ==
    IF a.album.some THEN ListOutcomes(AlbumLists)
    ELSE {[ok |-> FALSE, list |-> <<>>]}


\* ------------------------------------------------------------------------
\* The selection store (assets.rs)
\* ------------------------------------------------------------------------

\* Assets.assets: HashMap<String, AssetResponseDto>, a function key -> record
EmptyAssets == [k \in {} |-> AssetA]

\* an insert that leaves an entry the map already has (entry().or_insert)
add_assetKeepsExisting(assets, asset) ==
    [k \in DOMAIN assets \cup {asset.id} |->
        IF k \in DOMAIN assets THEN assets[k] ELSE asset]

\* Assets::add_asset: insert under the record's id, replacing a prior one
add_asset(assets, asset) ==
    [k \in DOMAIN assets \cup {asset.id} |->
        IF k = asset.id THEN asset ELSE assets[k]]

\* Assets::remove_asset
remove_asset(assets, asset_id) ==
    [k \in DOMAIN assets \ {asset_id} |-> assets[k]]

\* Assets::retain, kept being the records its predicate is true of
retain(assets, kept) ==
    [k \in {x \in DOMAIN assets : assets[x] \in kept} |-> assets[k]]

\* Assets::len
len(assets) == Cardinality(DOMAIN assets)

\* The store file: absent, or the entries written so far and whether the
\* document has been written to its end; readable says whether File::open
\* and read_to_string succeed on it.
\* mode holds the permission bits of the file; for an absent file those a
\* file created now would get, which is for the umask of the process to say.
OwnerOnly == {"ur", "uw"}

\* the mode File::create asks for, 0o666
CreateMode == {"ur", "uw", "gr", "gw", "or", "ow"}

\* umask 022 and umask 077
Umasks == {{"gw", "ow"}, {"gr", "gw", "or", "ow"}}

DefaultUmask == {"gw", "ow"}

NewFileMode(umask) == CreateMode \ umask

AbsentFileUnder(umask) ==
    [exists |-> FALSE, entries |-> <<>>, closed |-> FALSE, readable |-> TRUE,
     mode |-> NewFileMode(umask)]

AbsentFile == AbsentFileUnder(DefaultUmask)

\* fs::File::create: a new file gets the mode the umask leaves, a file
\* that is there is emptied and keeps its mode
CreatedFile(f) ==
    [exists |-> TRUE, entries |-> <<>>, closed |-> FALSE, readable |-> TRUE,
     mode |-> f.mode]

\* a file save has written to its end
WrittenFile(c) ==
    [exists |-> TRUE, entries |-> c, closed |-> TRUE, readable |-> TRUE,
     mode |-> NewFileMode(DefaultUmask)]

\* serde_json::to_string_pretty(&self): the entries of the map in the order
\* the HashMap iterates them, which is any order
Serializations(assets) ==
    LET n == len(assets)
        orders == {o \in [1..n -> DOMAIN assets] :
                      \A i, j \in 1..n : i # j => o[i] # o[j]}
    IN  {[i \in 1..n |-> [key |-> o[i], asset |-> assets[o[i]]]] : o \in orders}

\* serde_json::from_str: a document that was not written to its end fails
\* to deserialize; of two entries with one key the later one is kept
Deserialize(f) ==
    LET keys == {f.entries[i].key : i \in 1..Len(f.entries)}
        last(k) == CHOOSE i \in 1..Len(f.entries) :
                      /\ f.entries[i].key = k
                      /\ \A j \in (i + 1)..Len(f.entries) : f.entries[j].key # k
    IN  [k \in keys |-> f.entries[last(k)].asset]

\* a reading that takes what it finds in a document that breaks off
load_selectionPartial(f) ==
    IF ~f.exists THEN [some |-> FALSE, v |-> EmptyAssets]
    ELSE IF ~f.readable THEN [some |-> FALSE, v |-> EmptyAssets]
    ELSE Some(Deserialize(f))

\* Assets::load_selection
load_selection(f) ==
    IF ~f.exists THEN [some |-> FALSE, v |-> EmptyAssets]
    ELSE IF ~f.readable THEN [some |-> FALSE, v |-> EmptyAssets]
    ELSE IF ~f.closed THEN [some |-> FALSE, v |-> EmptyAssets]
    ELSE Some(Deserialize(f))

\* Assets::load
load(f) ==
    LET s == load_selection(f)
    IN  IF s.some THEN s.v ELSE EmptyAssets

\* ------------------------------------------------------------------------
\* Tag and album lookup (tag_cmd.rs, album_cmd.rs)
\* ------------------------------------------------------------------------

\* the error of ImmichCtl::immich and assert_logged_in without a login
NotLoggedInMessage ==
    "Not logged in. Use 'immichctl login <URL> --apikey <KEY>' to login."

\* ImmichCtl::_find_tag_by_name
find_tag_in_list(name, tags) ==
    LET Matches(t) == t.name = name \/ t.value = name
        matching_tags == SelectSeq(tags, Matches)
    IN  IF Len(matching_tags) = 1
        THEN LET u == UuidParseStr(matching_tags[1].id)
             IN  IF u.ok THEN Some(u.v) ELSE NoneStr
        ELSE NoneStr

\* ImmichCtl::find_tag_by_name: [ok, err, v, calls]
find_tag_by_name(name, logged, outcome) ==
    IF ~logged
    THEN [ok |-> FALSE, err |-> NotLoggedInMessage, v |-> <<>>, calls |-> 0]
    ELSE IF ~outcome.ok
    THEN [ok |-> FALSE, err |-> "Could not retrieve tags", v |-> <<>>, calls |-> 1]
    ELSE LET tag_id == find_tag_in_list(name, outcome.list)
         IN  IF tag_id.some
             THEN [ok |-> TRUE, err |-> "", v |-> tag_id.v, calls |-> 1]
             ELSE [ok |-> FALSE, err |-> "Tag not found or not unique",
                   v |-> <<>>, calls |-> 1]

\* ImmichCtl::find_album_by_name: [ok, err, v, calls]
find_album_by_name(name, logged, outcome) ==
    IF ~logged
    THEN [ok |-> FALSE, err |-> NotLoggedInMessage, v |-> <<>>, calls |-> 0]
    ELSE IF ~outcome.ok
    THEN [ok |-> FALSE, err |-> "Could not retrieve albums", v |-> <<>>, calls |-> 1]
    ELSE LET Matches(a) == a.album_name = name
             matching_albums == SelectSeq(outcome.list, Matches)
         IN  IF Len(matching_albums) = 0
             THEN [ok |-> FALSE, err |-> "Album not found", v |-> <<>>, calls |-> 1]
             ELSE IF Len(matching_albums) = 1
             THEN LET u == UuidParseStr(matching_albums[1].id)
                  IN  IF u.ok
                      THEN [ok |-> TRUE, err |-> "", v |-> u.v, calls |-> 1]
                      ELSE [ok |-> FALSE, err |-> "invalid uuid", v |-> <<>>,
                            calls |-> 1]
             ELSE [ok |-> FALSE, err |-> "Album name is not unique",
                   v |-> <<>>, calls |-> 1]

\* ------------------------------------------------------------------------
\* Search criteria (asset_cmd.rs)
\* ------------------------------------------------------------------------

\* MetadataSearchDto::default()
DefaultSearchDto ==
    [id |-> NoneStr, tag_ids |-> NoneStr, album_ids |-> NoneStr,
     is_favorite |-> NoneBool, taken_after |-> NoneInt,
     taken_before |-> NoneInt, with_exif |-> NoneBool]

\* a request that carries the timezone as one more criterion
CopiedFieldsWithTimezone(args, id, tag_ids, album_ids) ==
    [id |-> id, tag_ids |-> tag_ids, album_ids |-> album_ids,
     is_favorite |-> args.favorite,
     taken_after |-> IF args.taken_after.some
                     THEN Some(args.taken_after.v.utc) ELSE NoneInt,
     taken_before |-> IF args.taken_before.some
                      THEN Some(args.taken_before.v.utc) ELSE NoneInt,
     with_exif |-> NoneBool,
     timezone |-> args.timezone]

\* the fields build_search_dto copies without a lookup
CopiedFields(args, id, tag_ids, album_ids) ==
    [id |-> id, tag_ids |-> tag_ids, album_ids |-> album_ids,
     is_favorite |-> args.favorite,
     taken_after |-> IF args.taken_after.some
                     THEN Some(args.taken_after.v.utc) ELSE NoneInt,
     taken_before |-> IF args.taken_before.some
                      THEN Some(args.taken_before.v.utc) ELSE NoneInt,
     with_exif |-> NoneBool]

BuildFailed(err, tag_calls, album_calls) ==
    [ok |-> FALSE, err |-> err, dto |-> DefaultSearchDto,
     tag_calls |-> tag_calls, album_calls |-> album_calls]

\* ImmichCtl::build_search_dto, given what the two lookups would answer:
\* [ok, err, dto, tag_calls, album_calls]
build_search_dto(args, logged, tags, albums) ==
    LET uuid == IF args.id.some THEN UuidParseStr(args.id.v) ELSE ErrStr
        tag == find_tag_by_name(args.tag.v, logged, tags)
        tag_calls == IF args.tag.some THEN tag.calls ELSE 0
        album == find_album_by_name(args.album.v, logged, albums)
        album_calls == IF args.album.some THEN album.calls ELSE 0
        dto == CopiedFields(args,
                            IF args.id.some THEN Some(uuid.v) ELSE NoneStr,
                            IF args.tag.some THEN Some(tag.v) ELSE NoneStr,
                            IF args.album.some THEN Some(album.v) ELSE NoneStr)
    IN  IF args.id.some /\ ~uuid.ok
        THEN BuildFailed("Invalid asset id, expected uuid", 0, 0)
        ELSE IF args.tag.some /\ ~tag.ok
        THEN BuildFailed(tag.err, tag_calls, 0)
        ELSE IF args.album.some /\ ~album.ok
        THEN BuildFailed(album.err, tag_calls, album_calls)
        ELSE IF dto = DefaultSearchDto
        THEN BuildFailed("Please provide at least one search flag.",
                         tag_calls, album_calls)
        ELSE [ok |-> TRUE, err |-> "", dto |-> dto,
              tag_calls |-> tag_calls, album_calls |-> album_calls]

\* a removal that rejects a timezone only next to a tag, not next to an album
RemovalPathTagOnly(args) ==
    IF args.tag.some
    THEN IF args.timezone.some THEN "invalid" ELSE "remote"
    ELSE IF args.album.some THEN "remote" ELSE "local"

\* a removal that sends a request with a favorite flag to the remote service
RemovalPathFavoriteRemote(args) ==
    IF args.tag.some \/ args.album.some \/ args.favorite.some
    THEN IF args.timezone.some THEN "invalid" ELSE "remote"
    ELSE "local"

\* the branch of assets_search_remove that handles a request
RemovalPath(args) ==
    IF args.tag.some \/ args.album.some
    THEN IF args.timezone.some THEN "invalid" ELSE "remote"
    ELSE "local"

\* a closure that keeps a record only when it fails every criterion given
RetainAssetAll(args, asset) ==
    /\ args.id.some => asset.id # args.id.v
    /\ args.favorite.some => asset.is_favorite # args.favorite.v
    /\ args.taken_after.some
         => get_date_time_original(asset).utc <= args.taken_after.v.utc
    /\ args.taken_before.some
         => get_date_time_original(asset).utc >= args.taken_before.v.utc
    /\ args.timezone.some
         => LET exif_tz == exif_timezone_offset(asset)
                asset_tz == IF exif_tz.some THEN exif_tz.v
                            ELSE asset_timezone_offset(asset)
            IN  asset_tz # args.timezone.v

\* a closure that compares the taken-at bounds with < and >
RetainAssetStrict(args, asset) ==
    \/ args.id.some /\ asset.id # args.id.v
    \/ args.favorite.some /\ asset.is_favorite # args.favorite.v
    \/ args.taken_after.some
         /\ get_date_time_original(asset).utc < args.taken_after.v.utc
    \/ args.taken_before.some
         /\ get_date_time_original(asset).utc > args.taken_before.v.utc
    \/ args.timezone.some
         /\ LET exif_tz == exif_timezone_offset(asset)
                asset_tz == IF exif_tz.some THEN exif_tz.v
                            ELSE asset_timezone_offset(asset)
            IN  asset_tz # args.timezone.v

\* the closure assets_search_remove passes to retain
RetainAsset(args, asset) ==
    \/ args.id.some /\ asset.id # args.id.v
    \/ args.favorite.some /\ asset.is_favorite # args.favorite.v
    \/ args.taken_after.some
         /\ get_date_time_original(asset).utc <= args.taken_after.v.utc
    \/ args.taken_before.some
         /\ get_date_time_original(asset).utc >= args.taken_before.v.utc
    \/ args.timezone.some
         /\ LET exif_tz == exif_timezone_offset(asset)
                asset_tz == IF exif_tz.some THEN exif_tz.v
                            ELSE asset_timezone_offset(asset)
            IN  asset_tz # args.timezone.v

\* a loop that takes 0 for a page to request
LoopContinuesAtZero(p) == p >= 0

\* the page loop's condition: while page > 0f64
LoopContinues(p) == p > 0

\* a loop that skips the first page
FirstPageSkipped == 1 + 1

\* the page the loop starts with: let mut page = 1f64
FirstPage == 1

\* a loop that stops after every response, token or not
NextPageIgnoresToken(next_page) == Ok(0)

\* the match on resp.assets.next_page: the next page, or a parse error
NextPage(next_page) ==
    IF next_page.some THEN ParseF64(next_page.v) ELSE Ok(0)

\* for asset in resp.assets.items.drain(..) { sel.add_asset(asset) }
RECURSIVE AddItems(_, _)
AddItems(acc, its) ==
    IF its = <<>> THEN acc
    ELSE AddItems([assets |-> add_asset(acc.assets, Head(its)),
                   log |-> Append(acc.log, Head(its).id)], Tail(its))

\* a loop over the items that stops after the first of them
RemoveItemsFirstOnly(acc, its) ==
    IF its = <<>> THEN acc
    ELSE [assets |-> remove_asset(acc.assets, Head(its).id),
          log |-> [i \in 1..Len(its) |-> its[i].id]]

\* for asset in resp.assets.items.iter() { assets.remove_asset(&asset.id) }
RECURSIVE RemoveItems(_, _)
RemoveItems(acc, its) ==
    IF its = <<>> THEN acc
    ELSE RemoveItems([assets |-> remove_asset(acc.assets, Head(its).id),
                      log |-> Append(acc.log, Head(its).id)], Tail(its))


\* ------------------------------------------------------------------------
\* State
\* ------------------------------------------------------------------------

VARIABLES
    file,        \* the store file assets.json
    logged_in,   \* Config::logged_in
    pc,          \* where the running command is
    kind,        \* "add" or "remove": the command running or last run
    args,        \* its arguments
    path,        \* the branch a removal took
    search_dto,  \* the criteria sent with every search request
    sel,         \* the Assets loaded by the command
    old_len,     \* its length when loaded
    page,        \* the loop's page variable
    reqs,        \* the page of every search request sent, in order
    toks,        \* the next_page of every search response, in order
    returned,    \* the ids of the items of the last search response
    consumed,    \* the ids the loop handled from that response, in order
    calls,       \* remote calls made: get_all_tags, get_all_albums, search
    saves,       \* calls of Assets::save
    contents,    \* the document save is writing
    result,      \* "none" while running, then "ok" or "err"
    err,         \* the error message
    fileAtStart, \* the store file when the command started
    added,       \* the id text of a just finished single-asset add into
                 \* an empty store, if the last command was one
    hist,        \* per id the search responses of the command returned:
                 \* its last copy, and whether an earlier response
                 \* held another copy of it
    adjust,      \* the arguments of assets_datetime_adjust
    todo,        \* the keys its loop has still to visit, in its order
    updates,     \* the update_asset calls it made, with their answers
    reports,     \* the lines it printed in dry-run mode
    inp,         \* the input of a function that is applied on its own
    out,         \* the value the function returned
    ran          \* whether the function was applied

\* the variables of the search commands and of save
searchVars ==
    <<file, logged_in, pc, kind, args, path, search_dto, sel, old_len, page,
      reqs, toks, returned, consumed, hist, calls, saves, contents, result,
      err, fileAtStart, added>>

\* the variables of assets_datetime_adjust
adjustVars == <<adjust, todo, updates, reports>>

\* the variables of a function applied on its own
pureVars == <<inp, out, ran>>

vars == <<searchVars, adjustVars, pureVars>>

NoArgs ==
    AssetSearchArgs(NoneStr, NoneName, NoneName, NoneBool, NoneDateTime,
                    NoneDateTime, NoneInt)

NoCalls == [tags |-> 0, albums |-> 0, search |-> 0]

\* no search response was received
NoHistory == [k \in {} |-> [asset |-> AssetA, again |-> FALSE]]

RECURSIVE Observe(_, _, _)
Observe(h, its, h0) ==
    IF its = <<>> THEN h
    ELSE LET it == Head(its)
             entry == [asset |-> it,
                       again |-> it.id \in DOMAIN h0 /\ h0[it.id].asset # it]
         IN  Observe([k \in DOMAIN h \cup {it.id} |->
                         IF k = it.id THEN entry ELSE h[k]],
                     Tail(its), h0)

\* no datetime-adjust is running
NoAdjust == [offset |-> 0, timezone |-> NoneInt, dry_run |-> FALSE]

AdjustIdle ==
    /\ adjust = NoAdjust
    /\ todo = <<>>
    /\ updates = <<>>
    /\ reports = <<>>

\* no function is applied on its own
PureIdle ==
    /\ inp = <<>>
    /\ out = <<>>
    /\ ran = FALSE

\* no command is running and no command has run
SearchIdle ==
    /\ pc = "idle"
    /\ kind = "none"
    /\ args = NoArgs
    /\ path = "none"
    /\ search_dto = DefaultSearchDto
    /\ sel = EmptyAssets
    /\ old_len = 0
    /\ page = 0
    /\ reqs = <<>>
    /\ toks = <<>>
    /\ returned = <<>>
    /\ consumed = <<>>
    /\ calls = NoCalls
    /\ saves = 0
    /\ contents = <<>>
    /\ result = "none"
    /\ err = ""
    /\ added = NoneStr
    /\ hist = NoHistory

Init ==
    /\ SearchIdle
    /\ AdjustIdle
    /\ PureIdle
    /\ file = AbsentFile
    /\ logged_in = FALSE
    /\ fileAtStart = AbsentFile

\* a new process can be started when none is running
CanStart == pc = "idle"

\* ------------------------------------------------------------------------
\* login / logout (server_cmd.rs)
\* ------------------------------------------------------------------------

Login ==
    /\ CanStart
    /\ ~logged_in
    /\ logged_in' = TRUE
    /\ UNCHANGED <<file, pc, kind, args, path, search_dto, sel, old_len, page,
                   reqs, toks, returned, consumed, hist, calls, saves, contents,
                   result, err, fileAtStart, added>>
    /\ UNCHANGED <<adjustVars, pureVars>>

Logout ==
    /\ CanStart
    /\ logged_in
    /\ logged_in' = FALSE
    /\ UNCHANGED <<file, pc, kind, args, path, search_dto, sel, old_len, page,
                   reqs, toks, returned, consumed, hist, calls, saves, contents,
                   result, err, fileAtStart, added>>
    /\ UNCHANGED <<adjustVars, pureVars>>

\* ------------------------------------------------------------------------
\* assets search (add), asset_cmd.rs
\* ------------------------------------------------------------------------

\* a command ends with an error: nothing more is done
\* an error path that goes on to save the store
BailAfterSave(message) ==
    /\ pc' = "save_create"
    /\ result' = "err"
    /\ err' = message

Bail(message) ==
    /\ pc' = "done"
    /\ result' = "err"
    /\ err' = message

\* assets_search_add up to its loop: build_search_dto, then Assets::load
StartSearchAdd ==
    /\ CanStart
    /\ \E a \in AddArgs : \E tags \in TagOutcomes(a), albums \in AlbumOutcomes(a) :
        LET b == build_search_dto(a, logged_in, tags, albums) IN
        /\ kind' = "add"
        /\ args' = a
        /\ path' = "none"
        /\ calls' = [tags |-> b.tag_calls, albums |-> b.album_calls, search |-> 0]
        /\ IF b.ok
           THEN /\ search_dto' = [b.dto EXCEPT !.with_exif = Some(TRUE)]
                /\ sel' = load(file)
                /\ old_len' = len(load(file))
                /\ page' = FirstPage
                /\ pc' = "add_loop"
                /\ result' = "none"
                /\ err' = ""
           ELSE /\ Bail(b.err)
                /\ search_dto' = DefaultSearchDto
                /\ sel' = EmptyAssets
                /\ old_len' = 0
                /\ page' = 0
    /\ reqs' = <<>>
    /\ toks' = <<>>
    /\ returned' = <<>>
    /\ consumed' = <<>>
    /\ hist' = NoHistory
    /\ saves' = 0
    /\ contents' = <<>>
    /\ fileAtStart' = file
    /\ added' = NoneStr
    /\ UNCHANGED <<file, logged_in>>
    /\ UNCHANGED <<adjustVars, pureVars>>

\* what the loop does with the next_page of a response it has consumed
AfterResponse(resp) ==
    LET next == NextPage(resp.next_page) IN
    /\ reqs' = Append(reqs, page)
    /\ toks' = Append(toks, resp.next_page)
    /\ returned' = [i \in 1..Len(resp.items) |-> resp.items[i].id]
    /\ hist' = Observe(hist, resp.items, hist)
    /\ calls' = [calls EXCEPT !.search = @ + 1]
    /\ IF ~next.ok
       THEN /\ Bail("Invalid next_page value")
            /\ UNCHANGED <<page, saves>>
       ELSE /\ page' = next.v
            /\ UNCHANGED <<pc, saves, result, err>>

\* the search call of an iteration fails
SearchFailed ==
    /\ reqs' = Append(reqs, page)
    /\ calls' = [calls EXCEPT !.search = @ + 1]
    /\ Bail("Search failed")
    /\ UNCHANGED <<toks, returned, consumed, hist, sel, page, saves>>

\* self.immich()? fails
NotLoggedIn ==
    /\ Bail(NotLoggedInMessage)
    /\ UNCHANGED <<reqs, toks, returned, consumed, hist, calls, sel, page,
                   saves>>

\* an iteration that writes the store file after every page it merged
AddPageFlushing ==
    /\ pc = "add_loop"
    /\ LoopContinues(page)
    /\ Len(reqs) < MaxPages
    /\ IF ~logged_in THEN NotLoggedIn /\ UNCHANGED file
       ELSE \/ SearchFailed /\ UNCHANGED file
            \/ \E resp \in SearchResponses :
                 LET done == AddItems([assets |-> sel, log |-> <<>>], resp.items)
                 IN  /\ sel' = done.assets
                     /\ consumed' = done.log
                     /\ \E c \in Serializations(done.assets) :
                          file' = WrittenFile(c)
                     /\ AfterResponse(resp)
    /\ UNCHANGED <<logged_in, kind, args, path, search_dto, old_len,
                   contents, fileAtStart, added>>
    /\ UNCHANGED <<adjustVars, pureVars>>

\* an iteration that merges its page into the store as the file holds it,
\* not into the records merged so far
AddPageIntoLoaded ==
    /\ pc = "add_loop"
    /\ LoopContinues(page)
    /\ Len(reqs) < MaxPages
    /\ IF ~logged_in THEN NotLoggedIn
       ELSE \/ SearchFailed
            \/ \E resp \in SearchResponses :
                 LET done == AddItems([assets |-> load(file), log |-> <<>>],
                                      resp.items)
                 IN  /\ sel' = done.assets
                     /\ consumed' = done.log
                     /\ AfterResponse(resp)
    /\ UNCHANGED <<file, logged_in, kind, args, path, search_dto, old_len,
                   contents, fileAtStart, added>>
    /\ UNCHANGED <<adjustVars, pureVars>>

\* one iteration of the loop of assets_search_add
AddPage ==
    /\ pc = "add_loop"
    /\ LoopContinues(page)
    /\ Len(reqs) < MaxPages
    /\ IF ~logged_in THEN NotLoggedIn
       ELSE \/ SearchFailed
            \/ \E resp \in SearchResponses :
                 LET done == AddItems([assets |-> sel, log |-> <<>>], resp.items)
                 IN  /\ sel' = done.assets
                     /\ consumed' = done.log
                     /\ AfterResponse(resp)
    /\ UNCHANGED <<file, logged_in, kind, args, path, search_dto, old_len,
                   contents, fileAtStart, added>>
    /\ UNCHANGED <<adjustVars, pureVars>>


\* ------------------------------------------------------------------------
\* assets search --remove, asset_cmd.rs
\* ------------------------------------------------------------------------

TimezoneNotAllowed ==
    "The --timezone option cannot be used together with other search options when multiple filters are applied."

\* assets_search_remove up to the loop of the remote branch, or up to save
\* in the local branch
StartSearchRemove ==
    /\ CanStart
    /\ \E a \in RemoveArgs : \E tags \in TagOutcomes(a), albums \in AlbumOutcomes(a) :
        LET assets == load(file)
            b == build_search_dto(a, logged_in, tags, albums)
        IN
        /\ kind' = "remove"
        /\ args' = a
        /\ path' = RemovalPath(a)
        /\ old_len' = len(assets)
        /\ CASE RemovalPath(a) = "invalid" ->
                  /\ Bail(TimezoneNotAllowed)
                  /\ sel' = assets
                  /\ search_dto' = DefaultSearchDto
                  /\ calls' = NoCalls
                  /\ page' = 0
                  /\ saves' = 0
             [] RemovalPath(a) = "remote" ->
                  /\ calls' = [tags |-> b.tag_calls, albums |-> b.album_calls,
                               search |-> 0]
                  /\ sel' = assets
                  /\ saves' = 0
                  /\ IF b.ok
                     THEN /\ search_dto' = b.dto
                          /\ page' = FirstPage
                          /\ pc' = "remove_loop"
                          /\ result' = "none"
                          /\ err' = ""
                     ELSE /\ Bail(b.err)
                          /\ search_dto' = DefaultSearchDto
                          /\ page' = 0
             [] OTHER ->
                  /\ sel' = retain(assets,
                               {asset \in {assets[k] : k \in DOMAIN assets} :
                                    RetainAsset(a, asset)})
                  /\ search_dto' = DefaultSearchDto
                  /\ calls' = NoCalls
                  /\ page' = 0
                  /\ pc' = "save_create"
                  /\ saves' = 1
                  /\ result' = "none"
                  /\ err' = ""
    /\ reqs' = <<>>
    /\ toks' = <<>>
    /\ returned' = <<>>
    /\ consumed' = <<>>
    /\ hist' = NoHistory
    /\ contents' = <<>>
    /\ fileAtStart' = file
    /\ UNCHANGED <<file, logged_in, added>>
    /\ UNCHANGED <<adjustVars, pureVars>>

\* one iteration of the loop of assets_search_remove_by_immich_query
RemovePage ==
    /\ pc = "remove_loop"
    /\ LoopContinues(page)
    /\ Len(reqs) < MaxPages
    /\ IF ~logged_in THEN NotLoggedIn
       ELSE \/ SearchFailed
            \/ \E resp \in SearchResponses :
                 LET done == RemoveItems([assets |-> sel, log |-> <<>>], resp.items)
                 IN  /\ sel' = done.assets
                     /\ consumed' = done.log
                     /\ AfterResponse(resp)
    /\ UNCHANGED <<file, logged_in, kind, args, path, search_dto, old_len,
                   contents, fileAtStart, added>>
    /\ UNCHANGED <<adjustVars, pureVars>>

\* whether the command was an add of one asset, by id alone, into an empty
\* store, answered by one page holding that asset
SingleAssetAdd ==
    /\ kind = "add"
    /\ args.id.some
    /\ args = [NoArgs EXCEPT !.id = args.id]
    /\ len(load(fileAtStart)) = 0
    /\ Len(reqs) = 1
    /\ Len(returned) = 1
    /\ returned[1] = UuidToString(search_dto.id.v)

\* the loop's condition fails: the loop is left, the last response is
\* dropped, and the command calls save
LoopExit ==
    /\ pc \in {"add_loop", "remove_loop"}
    /\ ~LoopContinues(page)
    /\ pc' = "save_create"
    /\ saves' = saves + 1
    /\ reqs' = <<>>
    /\ toks' = <<>>
    /\ returned' = <<>>
    /\ consumed' = <<>>
    /\ added' = IF SingleAssetAdd THEN args.id ELSE NoneStr
    /\ UNCHANGED <<file, logged_in, kind, args, path, search_dto, sel, old_len,
                   page, calls, contents, result, err, fileAtStart, hist>>
    /\ UNCHANGED <<adjustVars, pureVars>>

\* ------------------------------------------------------------------------
\* Assets::save, assets.rs
\* ------------------------------------------------------------------------

\* create_dir_all, to_string_pretty, File::create: the file exists and is
\* empty from here on
SaveCreate ==
    /\ pc = "save_create"
    /\ \E c \in Serializations(sel) : contents' = c
    /\ file' = CreatedFile(file)
    /\ pc' = "save_write"
    /\ UNCHANGED <<logged_in, kind, args, path, search_dto, sel, old_len, page,
                   reqs, toks, returned, consumed, hist, calls, saves, result, err,
                   fileAtStart, added>>
    /\ UNCHANGED <<adjustVars, pureVars>>

\* file.write_all: the document reaches the file piece by piece; after the
\* last piece save returns and the command reports and ends
SaveWrite ==
    /\ pc = "save_write"
    /\ IF Len(file.entries) < Len(contents)
       THEN /\ file' = [file EXCEPT
                          !.entries = Append(@, contents[Len(file.entries) + 1])]
            /\ UNCHANGED <<pc, result>>
       ELSE /\ file' = [file EXCEPT !.closed = TRUE]
            /\ pc' = "done"
            /\ result' = "ok"
    /\ UNCHANGED <<logged_in, kind, args, path, search_dto, sel, old_len, page,
                   reqs, toks, returned, consumed, hist, calls, saves, contents, err,
                   fileAtStart, added>>
    /\ UNCHANGED <<adjustVars, pureVars>>

\* File::create or write_all returns an error
SaveFailed ==
    /\ pc \in {"save_create", "save_write"}
    /\ Bail("Could not save asset selection.")
    /\ UNCHANGED <<file, logged_in, kind, args, path, search_dto, sel, old_len,
                   page, reqs, toks, returned, consumed, hist, calls, saves, contents,
                   fileAtStart, added>>
    /\ UNCHANGED <<adjustVars, pureVars>>

\* the process is killed between two steps of a command: what it held in
\* memory is gone, the store file stays as it is
Interrupt ==
    /\ pc \in {"add_loop", "remove_loop", "save_create", "save_write"}
    /\ pc' = "interrupted"
    /\ sel' = EmptyAssets
    /\ search_dto' = DefaultSearchDto
    /\ old_len' = 0
    /\ page' = 0
    /\ reqs' = <<>>
    /\ toks' = <<>>
    /\ returned' = <<>>
    /\ consumed' = <<>>
    /\ hist' = NoHistory
    /\ UNCHANGED <<file, logged_in, kind, args, path, calls, saves, contents,
                   result, err, fileAtStart, added>>
    /\ UNCHANGED <<adjustVars, pureVars>>

\* the process ends: the store file and the configuration are what is left
\* of it
Exit ==
    /\ pc = "done"
    /\ pc' = "idle"
    /\ kind' = "none"
    /\ args' = NoArgs
    /\ path' = "none"
    /\ search_dto' = DefaultSearchDto
    /\ sel' = EmptyAssets
    /\ old_len' = 0
    /\ page' = 0
    /\ reqs' = <<>>
    /\ toks' = <<>>
    /\ returned' = <<>>
    /\ consumed' = <<>>
    /\ hist' = NoHistory
    /\ calls' = NoCalls
    /\ saves' = 0
    /\ contents' = <<>>
    /\ result' = "none"
    /\ err' = ""
    /\ fileAtStart' = file
    /\ added' = IF kind = "add" /\ result = "ok" THEN added ELSE NoneStr
    /\ adjust' = NoAdjust
    /\ todo' = <<>>
    /\ updates' = <<>>
    /\ reports' = <<>>
    /\ UNCHANGED <<file, logged_in, pureVars>>

Next ==
    \/ Login
    \/ Logout
    \/ StartSearchAdd
    \/ AddPage
    \/ StartSearchRemove
    \/ RemovePage
    \/ LoopExit
    \/ SaveCreate
    \/ SaveWrite
    \/ SaveFailed
    \/ Interrupt
    \/ Exit

Spec == Init /\ [][Next]_vars

\* ------------------------------------------------------------------------
\* The page loop run to its end against a service whose pages end
\* ------------------------------------------------------------------------

\* the service's pages end: the response to the last request it answers
\* carries no token that sends the loop on
TokensEnd(rs, p, c) ==
    Len(rs) = MaxPages => c = "done" \/ ~LoopContinues(p)

\* the pages of this service are not full: what ends the loop is the
\* token, not the items
PageNotFull(ids) == Len(ids) < MaxItems

\* one iteration of the loop of assets_search_add against such a service
LiveAddPage ==
    /\ AddPage
    /\ TokensEnd(reqs', page', pc')
    /\ PageNotFull(returned')

\* one iteration of the loop of the remote removal against such a service
LiveRemovePage ==
    /\ RemovePage
    /\ TokensEnd(reqs', page', pc')
    /\ PageNotFull(returned')

\* the commands run without being killed, and the store file takes what
\* save writes
LiveNext ==
    \/ Login
    \/ Logout
    \/ StartSearchAdd
    \/ LiveAddPage
    \/ StartSearchRemove
    \/ LiveRemovePage
    \/ LoopExit
    \/ SaveCreate
    \/ SaveWrite
    \/ Exit

\* a command is one sequential task: a step it is ready to take is taken
SpecLive ==
    /\ Init
    /\ [][LiveNext]_vars
    /\ WF_vars(LiveAddPage)
    /\ WF_vars(LiveRemovePage)
    /\ WF_vars(LoopExit)
    /\ WF_vars(SaveCreate)
    /\ WF_vars(SaveWrite)

\* ------------------------------------------------------------------------
\* assets datetime (assets_datetime_adjust), asset_cmd.rs
\* ------------------------------------------------------------------------

NoneAsset == [some |-> FALSE, v |-> AssetA]

\* command line arguments of "assets datetime": --offset, --timezone,
\* --dry-run
AdjustArgs ==
    {[offset |-> o, timezone |-> tz, dry_run |-> d] :
        o \in {0, Hours(1), 0 - Hours(3)},
        tz \in {NoneInt, Some(0), Some(Hours(2))},
        d \in BOOLEAN}

\* the orders in which a HashMap may iterate its keys
KeyOrders(assets) ==
    {o \in [1..len(assets) -> DOMAIN assets] :
        \A i, j \in 1..len(assets) : i # j => o[i] # o[j]}

\* the stores the service's assets can form, every record under its id
ServerStores ==
    UNION {{st \in [ids -> ServerAssets] : \A k \in ids : st[k].id = k} :
              ids \in SUBSET {r.id : r \in ServerAssets}}

\* a record whose id is no UUID
AssetNoUuid ==
    AssetResponseDto(IdNoUuid, Hours(10), Wide(0, Hours(12)), NoneInt, NoneStr,
                     FALSE)

\* the stores the commands find: those of the service's assets, and one
\* that holds a record whose id is no UUID next to a record of the service
StoredStores ==
    ServerStores \cup {add_asset(add_asset(EmptyAssets, AssetB), AssetNoUuid)}

\* the store files earlier commands can have left
SavedFiles ==
    {AbsentFile}
    \cup UNION {{WrittenFile(c) : c \in Serializations(st)} :
                   st \in StoredStores}

AdjustInit ==
    /\ SearchIdle
    /\ AdjustIdle
    /\ PureIdle
    /\ file \in SavedFiles
    /\ logged_in \in BOOLEAN
    /\ fileAtStart = file

\* assets_datetime_adjust up to its loop: Assets::load; iter_mut_assets
\* fixes the order of the loop
StartAdjust ==
    /\ CanStart
    /\ \E a \in AdjustArgs : \E order \in KeyOrders(load(file)) :
        /\ adjust' = a
        /\ todo' = order
    /\ kind' = "adjust"
    /\ sel' = load(file)
    /\ old_len' = len(load(file))
    /\ updates' = <<>>
    /\ reports' = <<>>
    /\ pc' = "adjust_loop"
    /\ fileAtStart' = file
    /\ UNCHANGED <<file, logged_in, args, path, search_dto, page, reqs, toks,
                   returned, consumed, hist, calls, saves, contents, result,
                   err, added, pureVars>>

\* an assignment that leaves the record as it is in memory
replace_assetKeepsLocal(assets, key, asset_res) == assets

\* *asset = asset_res.into_inner(): the entry of the map the loop is at
\* takes the record the service returned
replace_asset(assets, key, asset_res) ==
    [assets EXCEPT ![key] = asset_res]

\* the update_asset call for the entry under key, and its answer
UpdateCall(key, uuid, new_date_time_original, response) ==
    [key |-> key, id |-> uuid,
     date_time_original |-> to_rfc3339(new_date_time_original),
     response |-> response]

\* the body of the loop for the entry under key, pair being what
\* adjust_date_time_original returned for it and uuid its parsed id
AdjustEntry(key, pair, uuid) ==
    IF adjust.dry_run
    THEN /\ reports' = Append(reports, [key |-> key, old |-> pair.old,
                                        new |-> pair.new])
         /\ todo' = Tail(todo)
         /\ UNCHANGED <<sel, updates, pc, result, err>>
    ELSE IF ~uuid.ok
    THEN /\ Bail("Invalid asset id, expected uuid")
         /\ UNCHANGED <<sel, updates, reports, todo>>
    ELSE IF ~logged_in
    THEN /\ Bail(NotLoggedInMessage)
         /\ UNCHANGED <<sel, updates, reports, todo>>
    ELSE \E response \in {NoneAsset} \cup {Some(r) : r \in ServerAssets} :
            /\ updates' = Append(updates,
                                 UpdateCall(key, uuid.v, pair.new, response))
            /\ IF response.some
               THEN /\ sel' = replace_asset(sel, key, response.v)
                    /\ todo' = Tail(todo)
                    /\ UNCHANGED <<reports, pc, result, err>>
               ELSE /\ Bail("Could not update asset")
                    /\ UNCHANGED <<sel, reports, todo>>

\* one iteration of the loop of assets_datetime_adjust
AdjustStep ==
    /\ pc = "adjust_loop"
    /\ todo # <<>>
    /\ AdjustEntry(Head(todo),
                   adjust_date_time_original(sel[Head(todo)], adjust.offset,
                                             adjust.timezone),
                   UuidParseStr(sel[Head(todo)].id))
    /\ UNCHANGED <<file, logged_in, kind, args, path, search_dto, old_len,
                   page, reqs, toks, returned, consumed, hist, calls, saves,
                   contents, fileAtStart, added, adjust, pureVars>>

\* a command that saves whether or not it is a dry run
AdjustFinishSavesAlways ==
    /\ pc = "adjust_loop"
    /\ todo = <<>>
    /\ pc' = "save_create"
    /\ saves' = saves + 1
    /\ UNCHANGED <<result, err>>
    /\ UNCHANGED <<file, logged_in, kind, args, path, search_dto, sel, old_len,
                   page, reqs, toks, returned, consumed, hist, calls, contents,
                   fileAtStart, added, adjustVars, pureVars>>

\* the loop is through: a dry run ends here, otherwise save is called
AdjustFinish ==
    /\ pc = "adjust_loop"
    /\ todo = <<>>
    /\ IF adjust.dry_run
       THEN /\ pc' = "done"
            /\ result' = "ok"
            /\ UNCHANGED <<saves, err>>
       ELSE /\ pc' = "save_create"
            /\ saves' = saves + 1
            /\ UNCHANGED <<result, err>>
    /\ UNCHANGED <<file, logged_in, kind, args, path, search_dto, sel, old_len,
                   page, reqs, toks, returned, consumed, hist, calls, contents,
                   fileAtStart, added, adjustVars, pureVars>>

\* assets_refresh up to its loop: Assets::load; an empty store ends the
\* command at once
StartRefresh ==
    /\ CanStart
    /\ kind' = "refresh"
    /\ sel' = load(file)
    /\ old_len' = len(load(file))
    /\ updates' = <<>>
    /\ reports' = <<>>
    /\ adjust' = NoAdjust
    /\ fileAtStart' = file
    /\ IF len(load(file)) = 0
       THEN /\ todo' = <<>>
            /\ pc' = "done"
            /\ result' = "ok"
            /\ UNCHANGED err
       ELSE /\ \E order \in KeyOrders(load(file)) : todo' = order
            /\ pc' = "refresh_loop"
            /\ UNCHANGED <<result, err>>
    /\ UNCHANGED <<file, logged_in, args, path, search_dto, page, reqs, toks,
                   returned, consumed, hist, calls, saves, contents, added,
                   pureVars>>

\* the get_asset_info call for the entry under key, and its answer
InfoCall(key, uuid, response) ==
    [key |-> key, id |-> uuid, response |-> response]

\* the body of the loop of assets_refresh for the entry under key
RefreshEntry(key, uuid) ==
    IF ~uuid.ok
    THEN /\ Bail("Invalid asset id, expected uuid")
         /\ UNCHANGED <<sel, updates, todo>>
    ELSE IF ~logged_in
    THEN /\ Bail(NotLoggedInMessage)
         /\ UNCHANGED <<sel, updates, todo>>
    ELSE \E response \in {NoneAsset} \cup {Some(r) : r \in ServerAssets} :
            /\ updates' = Append(updates, InfoCall(key, uuid.v, response))
            /\ IF response.some
               THEN /\ sel' = replace_asset(sel, key, response.v)
                    /\ todo' = Tail(todo)
                    /\ UNCHANGED <<pc, result, err>>
               ELSE /\ Bail("Could not retrieve asset")
                    /\ UNCHANGED <<sel, todo>>

\* one iteration of the loop of assets_refresh
RefreshStep ==
    /\ pc = "refresh_loop"
    /\ todo # <<>>
    /\ RefreshEntry(Head(todo), UuidParseStr(sel[Head(todo)].id))
    /\ UNCHANGED <<file, logged_in, kind, args, path, search_dto, old_len,
                   page, reqs, toks, returned, consumed, hist, calls, saves,
                   contents, fileAtStart, added, adjust, reports, pureVars>>

\* the loop of assets_refresh is through: save is called
RefreshFinish ==
    /\ pc = "refresh_loop"
    /\ todo = <<>>
    /\ pc' = "save_create"
    /\ saves' = saves + 1
    /\ UNCHANGED <<file, logged_in, kind, args, path, search_dto, sel, old_len,
                   page, reqs, toks, returned, consumed, hist, calls, contents,
                   result, err, fileAtStart, added, adjustVars, pureVars>>

AdjustNext ==
    \/ Login
    \/ Logout
    \/ StartAdjust
    \/ AdjustStep
    \/ AdjustFinish
    \/ StartRefresh
    \/ RefreshStep
    \/ RefreshFinish
    \/ SaveCreate
    \/ SaveWrite
    \/ SaveFailed
    \/ Exit

SpecAdjust == AdjustInit /\ [][AdjustNext]_vars

\* ------------------------------------------------------------------------
\* Assets::save on its own, assets.rs
\* ------------------------------------------------------------------------

\* the modes a store file may have before a save: 0o600, 0o644, 0o666
FileModes == {OwnerOnly, NewFileMode(DefaultUmask), CreateMode}

\* the files save may find: none, under either umask, or one an earlier
\* save wrote, with any of the modes
SaveFiles ==
    {AbsentFileUnder(u) : u \in Umasks}
    \cup UNION {{[WrittenFile(c) EXCEPT !.mode = m] :
                    c \in Serializations(st), m \in FileModes} :
                   st \in ServerStores}

SaveInit ==
    /\ SearchIdle
    /\ AdjustIdle
    /\ PureIdle
    /\ file \in SaveFiles
    /\ logged_in = FALSE
    /\ fileAtStart = file

\* a command has its store in memory and calls assets.save()
StartSave ==
    /\ CanStart
    /\ kind' = "save"
    /\ \E st \in ServerStores : sel' = st
    /\ old_len' = len(load(file))
    /\ saves' = saves + 1
    /\ pc' = "save_create"
    /\ fileAtStart' = file
    /\ UNCHANGED <<file, logged_in, args, path, search_dto, page, reqs, toks,
                   returned, consumed, hist, calls, contents, result, err,
                   added, adjustVars, pureVars>>

SaveNext ==
    \/ StartSave
    \/ SaveCreate
    \/ SaveWrite
    \/ SaveFailed
    \/ Exit

SpecSave == SaveInit /\ [][SaveNext]_vars

\* ------------------------------------------------------------------------
\* Functions applied on their own: one input, one application
\* ------------------------------------------------------------------------

\* the records add_asset is given: the service's assets with either
\* favorite flag
StoreRecords ==
    {[r EXCEPT !.is_favorite = f] : r \in ServerAssets, f \in BOOLEAN}

StoreIds == {r.id : r \in StoreRecords}

\* the stores the add commands build: every record under its id
Stores ==
    UNION {{st \in [ids -> StoreRecords] : \A k \in ids : st[k].id = k} :
              ids \in SUBSET StoreIds}

AddAssetInputs ==
    {[fn |-> "add_asset", assets |-> st, asset |-> r] :
        st \in Stores, r \in StoreRecords}

\* local_date_time lies up to MaxEra * 2^32 seconds before or after
\* file_created_at
MaxEra == 1

\* local_date_time - file_created_at, in seconds within the era: no
\* difference, whole hours, and the values around 24 hours
DeviceDeltas ==
    {0, Hours(2), 0 - Hours(3), Hours(26), 0 - Hours(26),
     FixedOffsetLimit - 1, FixedOffsetLimit, FixedOffsetLimit + 1,
     1 - FixedOffsetLimit, 0 - FixedOffsetLimit, 0 - FixedOffsetLimit - 1}

\* an EXIF timezone text the parser rejects: 15 hours
TzPlus15 == <<"+", "1", "5">>

\* the records the resolver is given: file_created_at at 10:00, every
\* device difference, EXIF date-time and EXIF timezone present or not,
\* the timezone parsing or not
ResolverAssets ==
    {AssetResponseDto(IdA1, Hours(10), Wide(e, Hours(10) + d), xdt, xtz, FALSE) :
        e \in (0 - MaxEra)..MaxEra, d \in DeviceDeltas,
        xdt \in {NoneInt, Some(Hours(20))},
        xtz \in {NoneStr, Some(TzPlus2), Some(UtcText), Some(TzPlus15)}}

ResolverInputs ==
    {[fn |-> f, asset |-> a] :
        f \in {"get_date_time_original", "asset_timezone_offset",
               "exif_timezone_offset"},
        a \in ResolverAssets}

AdjustInputs ==
    {[fn |-> "adjust_date_time_original", asset |-> a, offset |-> o,
      new_timezone |-> tz] :
        a \in ResolverAssets,
        o \in {0, Hours(1), 0 - Hours(3)},
        tz \in {NoneInt, Some(0), Some(Hours(2)), Some(0 - Hours(5))}}

\* hours and minutes written into timezone texts go up to these, one past
\* what the parser accepts
MaxHourText == 15

MaxMinuteText == 60

\* spaces put before and after a timezone text
MaxPad == 1

DigitChar(n) ==
    CASE n = 0 -> "0" [] n = 1 -> "1" [] n = 2 -> "2" [] n = 3 -> "3"
      [] n = 4 -> "4" [] n = 5 -> "5" [] n = 6 -> "6" [] n = 7 -> "7"
      [] n = 8 -> "8" [] n = 9 -> "9"

\* a number below 100 in two digits, and in as many digits as it needs
TwoDigits(n) == <<DigitChar(n \div 10), DigitChar(n % 10)>>

Decimal(n) == IF n < 10 THEN <<DigitChar(n)>> ELSE TwoDigits(n)

\* the forms of test_parse_exif_timezone; the two without minutes are
\* written for whole hours only
TzFormNames == {"sH", "sHH", "sH:MM", "sHH:MM", "sHHMM"}

TzFormsOf(m) == IF m = 0 THEN TzFormNames ELSE TzFormNames \ {"sH", "sHH"}

TzDigits(form, h, m) ==
    CASE form = "sH" -> Decimal(h)
      [] form = "sHH" -> TwoDigits(h)
      [] form = "sH:MM" -> Decimal(h) \o <<":">> \o TwoDigits(m)
      [] form = "sHH:MM" -> TwoDigits(h) \o <<":">> \o TwoDigits(m)
      [] form = "sHHMM" -> TwoDigits(h) \o TwoDigits(m)

Spaces(n) == [i \in 1..n |-> " "]

\* a timezone text: spaces, "UTC" or not, the sign or none, the digits of
\* the form, spaces
TzText(left, utc, sign, form, h, m, right) ==
    Spaces(left) \o (IF utc THEN UtcText ELSE <<>>) \o sign
        \o TzDigits(form, h, m) \o Spaces(right)

FormedTzInputs ==
    {[fn |-> "parse_exif_timezone",
      tz_str |-> TzText(x[1], x[2], x[3], x[4], x[5], x[6], x[7]),
      sign |-> x[3], form |-> x[4], h |-> x[5], m |-> x[6]] :
        x \in {y \in (0..MaxPad) \X BOOLEAN \X {<<"+">>, <<"-">>, <<>>}
                       \X TzFormNames \X (0..MaxHourText)
                       \X (0..MaxMinuteText) \X (0..MaxPad) :
                  y[4] \in TzFormsOf(y[6])}}

\* texts that are not of these forms: empty, spaces only, "UTC", a sign
\* alone, a sign inside the number, one-digit and three-digit minutes, a
\* third part, a space after "UTC"
OtherTzTexts ==
    {<<>>, <<" ">>, UtcText, <<" ">> \o UtcText \o <<" ">>, <<"+">>,
     UtcText \o <<"-">>, <<"+", ":", "3", "0">>, <<"+", "-", "2", "0">>,
     <<"-", "-", "2", "0">>, <<"+", "1", ":", "-", "3", "0">>,
     <<"+", "1", "2", "3">>, <<"Z">>, <<"+", "+", "5">>,
     <<"+", "1", ":", "5">>, <<"+", "1", ":", "2", ":", "3">>,
     <<"+", "5", ":", "0", "3", "0">>, <<"+", "1", ":">>,
     UtcText \o <<" ", "+", "2">>}

OtherTzInputs ==
    {[fn |-> "parse_exif_timezone", tz_str |-> t, sign |-> <<>>,
      form |-> "other", h |-> 0, m |-> 0] : t \in OtherTzTexts}

TzInputs == FormedTzInputs \cup OtherTzInputs

\* Assets::load as a whole: the store it returns, bound to the path
Assets_load(file_path, f) == [file |-> file_path, assets |-> load(f)]

\* the files load may find: none, or what a save of a store wrote or
\* began to write, readable or not
LoadFiles ==
    {AbsentFile}
    \cup UNION {UNION {{[exists |-> TRUE, entries |-> SubSeq(c, 1, x[1]),
                         closed |-> x[2], readable |-> x[3],
                         mode |-> NewFileMode(DefaultUmask)] :
                           x \in {y \in (0..Len(c)) \X BOOLEAN \X BOOLEAN :
                                     y[2] => y[1] = Len(c)}} :
                       c \in Serializations(st)} : st \in Stores}

LoadInputs ==
    {[fn |-> "load", file_path |-> p, file |-> f] :
        p \in {"assets.json", "other.json"}, f \in LoadFiles}

\* names looked up: a simple name two tags share, a full path, an album
\* name two albums share, and a name nothing carries
LookupNames == {"tag1", "p/tag1", "album1", "nope"}

FindTagInputs ==
    {[fn |-> "find_tag_by_name", name |-> n, logged |-> l, outcome |-> o] :
        n \in LookupNames, l \in BOOLEAN, o \in ListOutcomes(TagLists)}

FindAlbumInputs ==
    {[fn |-> "find_album_by_name", name |-> n, logged |-> l, outcome |-> o] :
        n \in LookupNames, l \in BOOLEAN, o \in ListOutcomes(AlbumLists)}

PureInputs ==
    AddAssetInputs \cup ResolverInputs \cup AdjustInputs \cup TzInputs
        \cup LoadInputs \cup FindTagInputs \cup FindAlbumInputs

PureInit ==
    /\ SearchIdle
    /\ AdjustIdle
    /\ file = AbsentFile
    /\ logged_in = FALSE
    /\ fileAtStart = AbsentFile
    /\ inp \in PureInputs
    /\ out = <<>>
    /\ ran = FALSE

\* Assets::add_asset applied to a store and a record
AddAsset ==
    /\ ~ran
    /\ inp.fn = "add_asset"
    /\ out' = add_asset(inp.assets, inp.asset)
    /\ ran' = TRUE
    /\ UNCHANGED <<inp, searchVars, adjustVars>>

\* ImmichCtl::adjust_date_time_original applied to a record, a delta and
\* an optional target offset
AdjustDateTimeOriginal ==
    /\ ~ran
    /\ inp.fn = "adjust_date_time_original"
    /\ out' = adjust_date_time_original(inp.asset, inp.offset,
                                        inp.new_timezone)
    /\ ran' = TRUE
    /\ UNCHANGED <<inp, searchVars, adjustVars>>

\* ImmichCtl::get_date_time_original applied to a record
GetDateTimeOriginal ==
    /\ ~ran
    /\ inp.fn = "get_date_time_original"
    /\ out' = get_date_time_original(inp.asset)
    /\ ran' = TRUE
    /\ UNCHANGED <<inp, searchVars, adjustVars>>

\* ImmichCtl::asset_timezone_offset applied to a record
AssetTimezoneOffset ==
    /\ ~ran
    /\ inp.fn = "asset_timezone_offset"
    /\ out' = asset_timezone_offset(inp.asset)
    /\ ran' = TRUE
    /\ UNCHANGED <<inp, searchVars, adjustVars>>

\* ImmichCtl::exif_timezone_offset applied to a record
ExifTimezoneOffset ==
    /\ ~ran
    /\ inp.fn = "exif_timezone_offset"
    /\ out' = exif_timezone_offset(inp.asset)
    /\ ran' = TRUE
    /\ UNCHANGED <<inp, searchVars, adjustVars>>

\* ImmichCtl::parse_exif_timezone applied to a text
ParseExifTimezone ==
    /\ ~ran
    /\ inp.fn = "parse_exif_timezone"
    /\ out' = parse_exif_timezone(inp.tz_str)
    /\ ran' = TRUE
    /\ UNCHANGED <<inp, searchVars, adjustVars>>

\* Assets::load applied to a path and the file found there
Load ==
    /\ ~ran
    /\ inp.fn = "load"
    /\ out' = Assets_load(inp.file_path, inp.file)
    /\ ran' = TRUE
    /\ UNCHANGED <<inp, searchVars, adjustVars>>

\* ImmichCtl::find_tag_by_name applied to a name and what get_all_tags
\* answers
FindTagByName ==
    /\ ~ran
    /\ inp.fn = "find_tag_by_name"
    /\ out' = find_tag_by_name(inp.name, inp.logged, inp.outcome)
    /\ ran' = TRUE
    /\ UNCHANGED <<inp, searchVars, adjustVars>>

\* ImmichCtl::find_album_by_name applied to a name and what get_all_albums
\* answers
FindAlbumByName ==
    /\ ~ran
    /\ inp.fn = "find_album_by_name"
    /\ out' = find_album_by_name(inp.name, inp.logged, inp.outcome)
    /\ ran' = TRUE
    /\ UNCHANGED <<inp, searchVars, adjustVars>>

PureNext ==
    \/ AddAsset
    \/ AdjustDateTimeOriginal
    \/ GetDateTimeOriginal
    \/ AssetTimezoneOffset
    \/ ExifTimezoneOffset
    \/ ParseExifTimezone
    \/ Load
    \/ FindTagByName
    \/ FindAlbumByName

SpecPure == PureInit /\ [][PureNext]_vars


\* ------------------------------------------------------------------------
\* Properties
\* ------------------------------------------------------------------------

InLoop == pc \in {"add_loop", "remove_loop"}

Searching == kind \in {"add", "remove"}

\* the messages of the errors that reject a request for what it asks
ValidationErrors ==
    {TimezoneNotAllowed, "Invalid asset id, expected uuid",
     "Please provide at least one search flag."}

\* the resolved taken-at instant of a record, as an absolute instant
TakenAt(asset) == get_date_time_original(asset).utc

\* C1: a removal that sets a timezone together with a tag or an album ends
\* with the validation error, has made no remote call, has not called save,
\* and the store file is what it was when the command started.
C1_TimezoneWithTagOrAlbumRejected ==
    (kind = "remove" /\ args.timezone.some /\ (args.tag.some \/ args.album.some))
    => /\ pc = "done"
       /\ result = "err"
       /\ err = TimezoneNotAllowed
       /\ calls = NoCalls
       /\ saves = 0
       /\ file = fileAtStart

\* C1 witness: such a removal, by album, was rejected by a logged-in client
\* while the store held records.
C1_Witness ==
    /\ kind = "remove"
    /\ args.timezone.some /\ args.album.some /\ ~args.tag.some
    /\ result = "err"
    /\ logged_in
    /\ len(load(file)) = 2

\* C2 (as claimed): a finished search without any criterion, add or remove,
\* run on a store that holds records, has ended with an error and the store
\* holds what it held.
C2_NoCriteriaRejected ==
    (Searching /\ args = NoArgs /\ pc = "done" /\ len(load(fileAtStart)) > 0)
    => /\ result = "err"
       /\ load(file) = load(fileAtStart)

\* C3 (as claimed): a finished search whose id is no UUID, unless it ended
\* with a failure to write the store file, has ended with a validation
\* error, without remote call and without save, the store file being what
\* it was.
C3_MalformedIdRejected ==
    (Searching /\ args.id.some /\ ~UuidParseStr(args.id.v).ok /\ pc = "done"
       /\ err # "Could not save asset selection.")
    => /\ result = "err"
       /\ err \in ValidationErrors
       /\ calls = NoCalls
       /\ saves = 0
       /\ file = fileAtStart

\* C4: when a search call fails or a next-page token cannot be used, the
\* command has ended with that error, save was not called, and the store
\* file is what it was when the command started.
C4_FailedPageSavesNothing ==
    (result = "err" /\ err \in {"Search failed", "Invalid next_page value"})
    => /\ pc = "done"
       /\ saves = 0
       /\ file = fileAtStart

\* C4 witness: the second request of an add failed after the first page had
\* changed the records in memory, which differ from the file's.
C4_Witness ==
    /\ kind = "add"
    /\ result = "err"
    /\ err = "Search failed"
    /\ Len(reqs) = 2
    /\ Len(toks) = 1
    /\ sel # load(file)
    /\ len(load(file)) > 0

\* C5 (as claimed): after the process was killed during a command that
\* started with a complete store file holding records, the file is the
\* complete document of before the command or the complete document the
\* command saves.
C5_InterruptedFileComplete ==
    (pc = "interrupted" /\ fileAtStart.closed /\ len(load(fileAtStart)) > 0)
    => \/ file = fileAtStart
       \/ file.closed /\ file.entries = contents

\* C6: the first request carries page 1; every later request carries the
\* value of the token of the response before it, so no request follows a
\* response without token; and the ids the loop handled from a response are
\* the ids of its items, in their order.
C6_PageLoopProtocol ==
    /\ Len(toks) <= Len(reqs)
    /\ reqs # <<>> => reqs[1] = 1
    /\ \A i \in 2..Len(reqs) :
         /\ toks[i - 1].some
         /\ ParseF64(toks[i - 1].v) = Ok(reqs[i])
    /\ consumed = returned

\* C6 witness: a loop that sent page 1, then page 2, and handled two items
\* with different ids from a second response that carries no token.
C6_Witness ==
    /\ InLoop
    /\ reqs = <<1, 2>>
    /\ Len(toks) = 2
    /\ ~toks[2].some
    /\ Len(consumed) = 2
    /\ consumed[1] # consumed[2]

\* the last request was answered, and the answer carries a token
AnsweredWithToken ==
    /\ toks # <<>>
    /\ Len(toks) = Len(reqs)
    /\ toks[Len(toks)].some

\* C7 (as claimed): after a response that carries a token, whatever its
\* value, the loop goes on to another request.
C7_TokenOpaque ==
    AnsweredWithToken => InLoop /\ page > 0

\* C7 (amended): after a response whose token parses as a number above 0 the
\* loop sends another request, with that number as page, also when it is not
\* above the page before; a token that parses to 0 or less ends the loop
\* without a request; a token that does not parse ends the command with an
\* error and without save.
C7_TokenNumeric ==
    AnsweredWithToken =>
        LET next == ParseF64(toks[Len(toks)].v) IN
        /\ (next.ok /\ next.v > 0) =>
              /\ InLoop
              /\ page = next.v
              /\ Len(reqs) < MaxPages => ENABLED (AddPage \/ RemovePage)
        /\ (next.ok /\ next.v <= 0) =>
              /\ InLoop
              /\ ~ENABLED (AddPage \/ RemovePage)
        /\ ~next.ok =>
              /\ pc = "done"
              /\ result = "err"
              /\ err = "Invalid next_page value"
              /\ saves = 0

\* C7 witness: the response to page 1 carried the token "1", and the loop
\* sent page 1 again.
C7_Witness ==
    /\ reqs = <<1, 1>>
    /\ toks[1] = Some(<<"1">>)

\* C8: a removal takes the invalid branch when it has a timezone and a tag
\* or an album, the remote branch when it has a tag or an album and no
\* timezone, the local branch otherwise; the local branch makes no remote
\* call and fails only if save fails; a search call is made only on the
\* remote branch.
C8_RemovalBranches ==
    kind = "remove" =>
        /\ path = (IF (args.tag.some \/ args.album.some) /\ args.timezone.some
                   THEN "invalid"
                   ELSE IF args.tag.some \/ args.album.some THEN "remote"
                   ELSE "local")
        /\ path = "local" => calls = NoCalls
        /\ (path = "local" /\ result = "err")
              => err = "Could not save asset selection."
        /\ calls.search > 0 => path = "remote"

\* C8 witness: a local removal by favorite flag finished and removed a
\* record while nobody was logged in.
C8_Witness ==
    /\ kind = "remove"
    /\ path = "local"
    /\ args.favorite.some
    /\ ~logged_in
    /\ pc = "done"
    /\ result = "ok"
    /\ len(load(file)) < len(load(fileAtStart))

\* a finished local removal by taken_after and taken_before alone
RemovedByTakenBounds ==
    /\ kind = "remove"
    /\ args.taken_after.some
    /\ args.taken_before.some
    /\ args = [NoArgs EXCEPT !.taken_after = args.taken_after,
                             !.taken_before = args.taken_before]
    /\ pc = "done"
    /\ result = "ok"

\* C9 (as claimed): the removal keeps exactly the records taken before
\* taken_after or after taken_before (t < A or t > B).
C9_KeepsStrictlyOutside ==
    RemovedByTakenBounds =>
        LET Outside(asset) ==
                \/ TakenAt(asset) < args.taken_after.v.utc
                \/ TakenAt(asset) > args.taken_before.v.utc
            before == load(fileAtStart)
        IN  load(file) =
                [k \in {x \in DOMAIN before : Outside(before[x])} |-> before[k]]

\* C9 (amended): the removal keeps exactly the records with t <= A or
\* t >= B, t being the resolved taken-at instant compared as an absolute
\* instant: it removes those taken after A and before B, and a record taken
\* at A or at B stays.
C9_KeepsOutsideOrOnBounds ==
    RemovedByTakenBounds =>
        LET NotInside(asset) ==
                \/ TakenAt(asset) <= args.taken_after.v.utc
                \/ TakenAt(asset) >= args.taken_before.v.utc
            before == load(fileAtStart)
        IN  load(file) =
                [k \in {x \in DOMAIN before : NotInside(before[x])} |-> before[k]]

\* C9 witness: a removal whose taken_after carries an offset kept a record
\* taken exactly at taken_after and removed a record taken inside the bounds.
C9_Witness ==
    /\ RemovedByTakenBounds
    /\ args.taken_after.v.off # 0
    /\ \E k \in DOMAIN load(file) :
         TakenAt(load(file)[k]) = args.taken_after.v.utc
    /\ \E k \in DOMAIN load(fileAtStart) \ DOMAIN load(file) :
         /\ TakenAt(load(fileAtStart)[k]) > args.taken_after.v.utc
         /\ TakenAt(load(fileAtStart)[k]) < args.taken_before.v.utc

\* C10 (as claimed): a finished add by an id text alone, into an empty
\* store, answered by one page with that asset, leaves a store of length 1;
\* a local removal by the same id text that follows it leaves a store of
\* length 0.
C10_AddThenRemoveById ==
    /\ (kind = "add" /\ pc = "done" /\ result = "ok" /\ added.some)
          => len(load(file)) = 1
    /\ (kind = "remove" /\ pc = "done" /\ result = "ok" /\ added.some
          /\ args = [NoArgs EXCEPT !.id = added])
          => /\ path = "local"
             /\ calls = NoCalls
             /\ len(load(file)) = 0

\* C11: after a finished removal through the remote search, the store file
\* holds the records it held before whose ids no response returned, each
\* unchanged, and nothing else.
C11_RemoteRemovalRemovesReturned ==
    (kind = "remove" /\ path = "remote" /\ pc = "done" /\ result = "ok")
    => LET before == load(fileAtStart)
       IN  load(file) = [k \in DOMAIN before \ DOMAIN hist |-> before[k]]

\* C11 witness: the removal took a record out of a store of two, kept the
\* other, and the id it removed was returned again by a later response,
\* when the store no longer held it.
C11_Witness ==
    /\ kind = "remove" /\ path = "remote" /\ pc = "done" /\ result = "ok"
    /\ len(load(fileAtStart)) = 2
    /\ len(load(file)) = 1
    /\ \E k \in DOMAIN hist : hist[k].again

\* C13: after a finished add, the store file holds for every id some
\* response returned the copy returned last, in the order of the responses
\* and of the items in them, and for every other id the record it held.
C13_LaterPageWins ==
    (kind = "add" /\ pc = "done" /\ result = "ok")
    => LET before == load(fileAtStart)
           after == load(file)
       IN  /\ DOMAIN after = DOMAIN before \cup DOMAIN hist
           /\ \A k \in DOMAIN after :
                after[k] = IF k \in DOMAIN hist THEN hist[k].asset
                           ELSE before[k]

\* C13 witness: an id came on two pages with different copies, and the
\* saved record is the later page's.
C13_Witness ==
    /\ kind = "add" /\ pc = "done" /\ result = "ok"
    /\ \E k \in DOMAIN hist :
         /\ hist[k].again
         /\ load(file)[k] = hist[k].asset

\* C12: add_asset on a store that holds the record's id leaves the length
\* as it was, on a store that does not hold it makes the length one more;
\* either way the store then holds one record with that id, the record
\* added, in every field, and every other entry is as before.
C12_AddIsUpsert ==
    (ran /\ inp.fn = "add_asset")
    => LET before == inp.assets
           r == inp.asset
       IN  /\ r.id \in DOMAIN out
           /\ out[r.id] = r
           /\ Cardinality({k \in DOMAIN out : out[k].id = r.id}) = 1
           /\ r.id \in DOMAIN before => len(out) = len(before)
           /\ r.id \notin DOMAIN before => len(out) = len(before) + 1
           /\ \A k \in DOMAIN before \ {r.id} :
                k \in DOMAIN out /\ out[k] = before[k]

\* C12 witness: a record was added to a store of two that held another
\* record under its id.
C12_Witness ==
    /\ ran
    /\ inp.fn = "add_asset"
    /\ len(inp.assets) = 2
    /\ inp.asset.id \in DOMAIN inp.assets
    /\ inp.assets[inp.asset.id] # inp.asset
    /\ out[inp.asset.id] = inp.asset

\* the keys of a sequence of loop records, and whether each occurs once
KeysOf(recs) == {recs[i].key : i \in 1..Len(recs)}

EachKeyOnce(recs, assets) ==
    /\ Len(recs) = len(assets)
    /\ KeysOf(recs) = DOMAIN assets

\* C14: a dry run of "assets datetime" calls the service not at all and
\* leaves the records in memory and the store file as they were; all it
\* does is report, for every stored record, the old and the new date-time.
C14_DryRunOnlyReports ==
    (kind = "adjust" /\ adjust.dry_run) =>
        /\ updates = <<>>
        /\ calls = NoCalls
        /\ saves = 0
        /\ sel = load(fileAtStart)
        /\ file = fileAtStart
        /\ \A i \in 1..Len(reports) :
              /\ reports[i].key \in DOMAIN sel
              /\ reports[i].old = get_date_time_original(sel[reports[i].key])
              /\ reports[i].new.utc = reports[i].old.utc + adjust.offset
        /\ pc = "done" => /\ result = "ok"
                          /\ EachKeyOnce(reports, sel)

C14_Witness ==
    /\ kind = "adjust"
    /\ adjust.dry_run
    /\ adjust.offset # 0
    /\ ~logged_in
    /\ pc = "done"
    /\ Len(reports) = 2

\* the date-time the command computes for a record: the canonical instant
\* moved by the offset, at the target offset or else at its own
NewInstant(asset) ==
    LET old == get_date_time_original(asset)
    IN  [utc |-> old.utc + adjust.offset,
         off |-> IF adjust.timezone.some THEN adjust.timezone.v ELSE old.off]

\* C15: "assets datetime" without --dry-run that completes has called
\* update once for every stored record, with the ISO-8601 text of the
\* record's new instant; the record saved is the one the call returned;
\* the store is saved once, after the last update.
C15_AdjustUpdatesEachRecordOnce ==
    /\ (kind = "adjust" /\ saves > 0) =>
          /\ saves = 1
          /\ todo = <<>>
          /\ ~adjust.dry_run
          /\ EachKeyOnce(updates, load(fileAtStart))
    /\ (kind = "adjust" /\ ~adjust.dry_run /\ pc = "done" /\ result = "ok") =>
          LET before == load(fileAtStart)
              after == load(file)
          IN  /\ saves = 1
              /\ EachKeyOnce(updates, before)
              /\ DOMAIN after = DOMAIN before
              /\ \A i \in 1..Len(updates) :
                    /\ updates[i].response.some
                    /\ updates[i].id = UuidParseStr(before[updates[i].key].id).v
                    /\ updates[i].date_time_original
                          = to_rfc3339(NewInstant(before[updates[i].key]))
                    /\ after[updates[i].key] = updates[i].response.v

C15_Witness ==
    /\ kind = "adjust"
    /\ ~adjust.dry_run
    /\ adjust.offset # 0
    /\ pc = "done"
    /\ result = "ok"
    /\ Len(updates) = 2
    /\ \E i \in 1..Len(updates) :
          updates[i].response.v # load(fileAtStart)[updates[i].key]

Applied(fn) == ran /\ inp.fn = fn

\* C16: adjust returns as old the canonical instant of the record and as
\* new the absolute instant old + delta, whatever target offset is given;
\* new is at the target offset if there is one, else at the offset of old.
C16_AdjustAddsDelta ==
    Applied("adjust_date_time_original") =>
        /\ out.old = get_date_time_original(inp.asset)
        /\ out.new.utc = out.old.utc + inp.offset
        /\ out.new.off = IF inp.new_timezone.some THEN inp.new_timezone.v
                         ELSE out.old.off

C16_Witness ==
    /\ Applied("adjust_date_time_original")
    /\ inp.offset # 0
    /\ inp.new_timezone.some
    /\ inp.new_timezone.v # out.old.off
    /\ out.new.off = inp.new_timezone.v

\* the EXIF date-time and the EXIF timezone are both there and the
\* timezone text parses
ExifUsable(asset) ==
    /\ asset.exif_date_time_original.some
    /\ asset.exif_time_zone.some
    /\ parse_exif_timezone(asset.exif_time_zone.v).ok

\* the difference local_date_time - file_created_at is below, or above,
\* 24 hours in magnitude (it is era * 2^32 + sec with |sec| < 2^31)
BelowDay(d) == d.era = 0 /\ 0 - FixedOffsetLimit < d.sec /\ d.sec < FixedOffsetLimit

AboveDay(d) == d.era # 0 \/ d.sec > FixedOffsetLimit \/ d.sec < 0 - FixedOffsetLimit

\* C18: the device-derived offset is the difference d of local_date_time
\* and file_created_at when |d| is below 24 hours, and 0 when |d| is above
\* 24 hours, however large d is.
C18_DeviceOffsetOrUtc ==
    Applied("asset_timezone_offset") =>
        LET d == signed_duration_since(inp.asset.local_date_time,
                                       inp.asset.file_created_at)
        IN  /\ BelowDay(d) => out = d.sec
            /\ AboveDay(d) => out = 0

\* the offset derived from the device clock as it is specified: the
\* difference itself below 24 hours, UTC at 24 hours and above
DeviceDerivedOffset(asset) ==
    LET d == signed_duration_since(asset.local_date_time,
                                   asset.file_created_at)
    IN  IF BelowDay(d) THEN d.sec ELSE 0

\* C17: the canonical instant is the EXIF date-time at the parsed EXIF
\* offset exactly when EXIF date-time and EXIF timezone are both present
\* and the timezone parses; in every other case it is file_created_at at
\* the device-derived offset.
C17_ExifElseFileCreatedAt ==
    Applied("get_date_time_original") =>
        IF ExifUsable(inp.asset)
        THEN out = [utc |-> inp.asset.exif_date_time_original.v,
                    off |-> parse_exif_timezone(inp.asset.exif_time_zone.v).v]
        ELSE out = [utc |-> inp.asset.file_created_at,
                    off |-> DeviceDerivedOffset(inp.asset)]

\* the largest offset of the valid range, 14:00
MaxTzSeconds == MaxTzHours * SecPerHour

\* C19: an offset the timezone parser returns lies between -14:00 and
\* +14:00; a text denoting an offset outside is an error.
C19_ParsedOffsetInRange ==
    Applied("parse_exif_timezone") =>
        /\ out.ok => 0 - MaxTzSeconds <= out.v /\ out.v <= MaxTzSeconds
        /\ (/\ inp.form \in TzFormNames
            /\ inp.sign # <<>>
            /\ inp.h * SecPerHour + inp.m * SecPerMin > MaxTzSeconds) => ~out.ok

\* the zero forms of test_parse_exif_timezone
ZeroTexts ==
    {UtcText, <<"+", "0">>, <<"-", "0">>,
     <<"+", "0", "0", ":", "0", "0">>, <<"-", "0", "0", ":", "0", "0">>,
     UtcText \o <<"+", "0">>, UtcText \o <<"-", "0">>}

SignOf(sign) == IF sign = <<"-">> THEN -1 ELSE 1

\* C20: for either sign, h in 0..14 and m in 0..59 each of the forms sH,
\* sHH, sH:MM, sHH:MM, sHHMM, with or without "UTC" before it and spaces
\* around it, parses to s * (3600 h + 60 m); "UTC" and the zero forms
\* parse to 0; the empty text and a text without a sign are errors.
C20_FormsParseToOffset ==
    Applied("parse_exif_timezone") =>
        /\ (/\ inp.form \in TzFormNames
            /\ inp.sign # <<>>
            /\ inp.h <= MaxTzHours
            /\ inp.m <= MaxTzMinutes)
              => out = Ok(SignOf(inp.sign)
                            * (SecPerHour * inp.h + SecPerMin * inp.m))
        /\ Trim(inp.tz_str) \in ZeroTexts => out = Ok(0)
        /\ inp.tz_str = <<>> => ~out.ok
        /\ (inp.form \in TzFormNames /\ inp.sign = <<>>) => ~out.ok

C20_Witness ==
    /\ Applied("parse_exif_timezone")
    /\ inp.form = "sHHMM"
    /\ inp.sign = <<"-">>
    /\ inp.h = MaxTzHours
    /\ inp.m = MaxTzMinutes
    /\ Len(inp.tz_str) > Len(Trim(inp.tz_str))
    /\ StripPrefixUtc(Trim(inp.tz_str)).some
    /\ out.ok
    /\ out.v < 0

\* the document in the file is one serde_json::from_str accepts
Deserializes(f) == f.exists /\ f.readable /\ f.closed

\* C21: load returns a store bound to the given path; it holds the records
\* of the file when the file exists and deserializes, and is empty when
\* the file is missing, unreadable or not a complete document.
C21_LoadNeverFails ==
    Applied("load") =>
        /\ out.file = inp.file_path
        /\ IF Deserializes(inp.file)
           THEN /\ DOMAIN out.assets
                      = {inp.file.entries[i].key : i \in 1..Len(inp.file.entries)}
                /\ \A i \in 1..Len(inp.file.entries) :
                      out.assets[inp.file.entries[i].key]
                          = inp.file.entries[i].asset
           ELSE out.assets = EmptyAssets

C21_Witness ==
    /\ Applied("load")
    /\ inp.file.exists
    /\ inp.file.readable
    /\ ~inp.file.closed
    /\ Len(inp.file.entries) = 2
    /\ out.assets = EmptyAssets

\* C22: every successful save leaves the store file with permissions for
\* the owner to read and write only, also when save creates the file.
C22_SavedFileOwnerOnly ==
    (kind = "save" /\ pc = "done" /\ result = "ok") => file.mode = OwnerOnly

\* how many tags, or albums, of a list carry the name
TagMatches(name, tags) ==
    Cardinality({i \in 1..Len(tags) :
                    tags[i].name = name \/ tags[i].value = name})

AlbumMatches(name, albums) ==
    Cardinality({i \in 1..Len(albums) : albums[i].album_name = name})

\* the answer of the service that holds nothing: no tag, no album matches
NothingThere == [ok |-> TRUE, list |-> <<>>]

\* C23: a tag name or an album name resolves exactly when one tag (by
\* simple name or full path) or one album carries it; with several
\* matches the error message is another one than with no match.
C23_ResolvesExactlyOne ==
    /\ (Applied("find_tag_by_name") /\ inp.logged /\ inp.outcome.ok) =>
          LET n == TagMatches(inp.name, inp.outcome.list)
          IN  /\ out.ok <=> n = 1
              /\ n > 1 =>
                   out.err # find_tag_by_name(inp.name, TRUE, NothingThere).err
    /\ (Applied("find_album_by_name") /\ inp.logged /\ inp.outcome.ok) =>
          LET n == AlbumMatches(inp.name, inp.outcome.list)
          IN  /\ out.ok <=> n = 1
              /\ n > 1 =>
                   out.err # find_album_by_name(inp.name, TRUE, NothingThere).err

\* the offset the local filter holds against --timezone: the EXIF timezone
\* if it parses, else the offset of the device clock
ComparedOffset(asset) ==
    IF asset.exif_time_zone.some /\ parse_exif_timezone(asset.exif_time_zone.v).ok
    THEN parse_exif_timezone(asset.exif_time_zone.v).v
    ELSE asset_timezone_offset(asset)

\* how many of id, favorite, taken-after, taken-before, timezone are given
CriteriaGiven(a) ==
    Cardinality({c \in {"id", "favorite", "taken_after", "taken_before",
                        "timezone"} :
                    \/ c = "id" /\ a.id.some
                    \/ c = "favorite" /\ a.favorite.some
                    \/ c = "taken_after" /\ a.taken_after.some
                    \/ c = "taken_before" /\ a.taken_before.some
                    \/ c = "timezone" /\ a.timezone.some})

\* the record meets every criterion that is given
MeetsAll(a, asset) ==
    /\ a.id.some => asset.id = a.id.v
    /\ a.favorite.some => asset.is_favorite = a.favorite.v
    /\ a.taken_after.some => TakenAt(asset) > a.taken_after.v.utc
    /\ a.taken_before.some => TakenAt(asset) < a.taken_before.v.utc
    /\ a.timezone.some => ComparedOffset(asset) = a.timezone.v

LocalRemovalDone ==
    /\ kind = "remove"
    /\ path = "local"
    /\ pc = "done"
    /\ result = "ok"
    /\ CriteriaGiven(args) >= 1

\* C24: a local removal with one or more of id, favorite, taken-after,
\* taken-before and timezone takes them as a conjunction: it removes the
\* stored records that meet every criterion given and keeps every record
\* that fails one of them.
C24_LocalCriteriaConjunction ==
    LocalRemovalDone =>
        LET before == load(fileAtStart)
        IN  load(file) =
                [k \in {x \in DOMAIN before : ~MeetsAll(args, before[x])}
                    |-> before[k]]

\* C24 witness: with two criteria given, a record that meets both was
\* removed and a record that meets one of them only was kept.
C24_Witness ==
    /\ LocalRemovalDone
    /\ args.favorite.some
    /\ args.timezone.some
    /\ CriteriaGiven(args) = 2
    /\ \E k \in DOMAIN load(fileAtStart) \ DOMAIN load(file) :
          MeetsAll(args, load(fileAtStart)[k])
    /\ \E k \in DOMAIN load(file) :
          /\ load(file)[k].is_favorite # args.favorite.v
          /\ ComparedOffset(load(file)[k]) = args.timezone.v

\* the text is one or two digits, or one or two digits, a colon and two
\* digits, or four digits
IsOffsetForm(rest) ==
    LET Digit(i) == rest[i] \in DigitChars
    IN  \/ Len(rest) \in {1, 2} /\ \A i \in 1..Len(rest) : Digit(i)
        \/ Len(rest) = 4 /\ \A i \in 1..4 : Digit(i)
        \/ Len(rest) = 4 /\ Digit(1) /\ rest[2] = ":" /\ Digit(3) /\ Digit(4)
        \/ Len(rest) = 5 /\ Digit(1) /\ Digit(2) /\ rest[3] = ":"
              /\ Digit(4) /\ Digit(5)

\* the trimmed text is "UTC", or a sign and an offset form, with or
\* without "UTC" before the sign
IsTimezoneText(t) ==
    \/ t = UtcText
    \/ LET s == IF StripPrefixUtc(t).some THEN StripPrefixUtc(t).v ELSE t
       IN  /\ s # <<>>
           /\ s[1] \in {"+", "-"}
           /\ IsOffsetForm(Tail(s))

\* C25: the timezone parser returns an error for every text that, trimmed,
\* is neither "UTC" nor a sign followed by H, HH, H:MM, HH:MM or HHMM in
\* decimal digits, with or without "UTC" before the sign.
C25_OtherTextsRejected ==
    (Applied("parse_exif_timezone") /\ ~IsTimezoneText(Trim(inp.tz_str)))
        => ~out.ok

\* C26: after any sequence of commands every key of the store map is the
\* id of the record under it, and no two entries carry the same id, also
\* when refresh or datetime-adjust have put under a key the record the
\* service returned.
C26_KeyIsId ==
    /\ \A k \in DOMAIN sel : sel[k].id = k
    /\ \A k1, k2 \in DOMAIN sel : sel[k1].id = sel[k2].id => k1 = k2
    /\ \A k \in DOMAIN load(file) : load(file)[k].id = k

\* the loop of refresh or datetime-adjust was left before its last record
LoopFailed ==
    /\ kind \in {"adjust", "refresh"}
    /\ pc \notin {"idle", "adjust_loop", "refresh_loop"}
    /\ todo # <<>>

LoopErrors ==
    {"Invalid asset id, expected uuid", NotLoggedInMessage,
     "Could not update asset", "Could not retrieve asset"}

\* C28: when refresh or a datetime-adjust that is no dry run fails at a
\* record (no UUID in its id, or the service's call fails), the command
\* ends with that error and has not saved: the store file is what it was,
\* although the calls before the failing one went through and the records
\* they returned are in memory.
C28_FailedLoopSavesNothing ==
    LoopFailed =>
        /\ pc = "done"
        /\ result = "err"
        /\ err \in LoopErrors
        /\ saves = 0
        /\ file = fileAtStart
        /\ (err = "Invalid asset id, expected uuid")
              = ~UuidParseStr(sel[Head(todo)].id).ok
        /\ \A i \in 1..Len(updates) :
              IF updates[i].response.some
              THEN sel[updates[i].key] = updates[i].response.v
              ELSE /\ i = Len(updates)
                   /\ updates[i].key = Head(todo)
                   /\ err \in {"Could not update asset",
                                "Could not retrieve asset"}

C28_Witness ==
    /\ kind = "adjust"
    /\ LoopFailed
    /\ Len(updates) = 2
    /\ updates[1].response.some
    /\ ~updates[2].response.some
    /\ updates[1].response.v # load(fileAtStart)[updates[1].key]
    /\ load(file) # sel

\* the other ways the loop fails: a stored id that is no UUID, and a
\* refresh whose second call fails
C28_InvalidIdReached ==
    /\ LoopFailed
    /\ err = "Invalid asset id, expected uuid"
    /\ Len(updates) = 1

C28_RefreshReached ==
    /\ kind = "refresh"
    /\ LoopFailed
    /\ Len(updates) = 2
    /\ err = "Could not retrieve asset"

\* C27: the offset the local timezone filter holds against the requested
\* timezone (the EXIF timezone if exif_timezone_offset returns one, else
\* the device offset) is the offset of the record's canonical taken-at
\* instant, also for a record with an EXIF timezone and no EXIF date-time.
C27_FilterOffsetIsCanonical ==
    Applied("exif_timezone_offset") =>
        (IF out.some THEN out.v ELSE asset_timezone_offset(inp.asset))
            = get_date_time_original(inp.asset).off

\* the request without its timezone
WithoutTimezone(a) == [a EXCEPT !.timezone = NoneInt]

\* C29: on "search" (add) the timezone is no part of the criteria sent to
\* the service: the request built is the one built without the timezone,
\* and every record the service returned is added whatever its offset; a
\* request with the timezone as its only flag is rejected for having no
\* search flag, before any call to the service and without a save.
C29_AddIgnoresTimezone ==
    kind = "add" =>
        /\ \A tags \in TagOutcomes(args), albums \in AlbumOutcomes(args) :
              build_search_dto(args, logged_in, tags, albums)
                  = build_search_dto(WithoutTimezone(args), logged_in, tags,
                                     albums)
        /\ calls.search > 0 /\ pc # "interrupted" =>
              search_dto
                  = [build_search_dto(WithoutTimezone(args), logged_in,
                                      [ok |-> FALSE, list |-> <<>>],
                                      [ok |-> FALSE, list |-> <<>>]).dto
                        EXCEPT !.with_exif = Some(TRUE)]
        /\ (pc = "done" /\ result = "ok") =>
              \A id \in DOMAIN hist : id \in DOMAIN load(file)
        /\ WithoutTimezone(args) = NoArgs =>
              /\ pc = "done"
              /\ result = "err"
              /\ err = "Please provide at least one search flag."
              /\ calls = NoCalls
              /\ saves = 0
              /\ file = fileAtStart

C29_Witness ==
    /\ kind = "add"
    /\ args.id.some
    /\ args.timezone.some
    /\ pc = "done"
    /\ result = "ok"
    /\ \E id \in DOMAIN load(file) :
          /\ id \notin DOMAIN load(fileAtStart)
          /\ ComparedOffset(load(file)[id]) # args.timezone.v

\* a request with the timezone as its only flag was rejected
C29_TimezoneOnlyReached ==
    /\ kind = "add"
    /\ args.timezone.some
    /\ WithoutTimezone(args) = NoArgs
    /\ logged_in
    /\ pc = "done"

\* every request of the loop so far was answered
AllAnswered == reqs # <<>> /\ Len(toks) = Len(reqs)

LastTokenPositive ==
    /\ AllAnswered
    /\ toks[Len(toks)].some
    /\ ParseF64(toks[Len(toks)].v).ok
    /\ ParseF64(toks[Len(toks)].v).v > 0

\* the errors that end a paged command in its loop
PageLoopErrors ==
    {"Search failed", NotLoggedInMessage, "Invalid next_page value"}

====
